---------------------------- MODULE Spec2Model ----------------------------
(***************************************************************************)
(* NFL Stats HUB: the acquisition / caching / cross-context delivery       *)
(* subsystem (src/standings.py, src/stats_leaders.py, src/image.py and the *)
(* bridge in src/app.py).                                                  *)
(*                                                                         *)
(* Two execution contexts are modelled.  The presentation context (the Tk  *)
(* main loop) runs the handlers and the delivery closures it dequeues; the *)
(* background loop runs the coroutines submitted with                      *)
(* run_coroutine_threadsafe.  A coroutine step is the code between two     *)
(* suspension points.  The response to an awaited request is one step; it  *)
(* arrives within the request's timeout (10 s, 5 s for an image), which is *)
(* short against the refresh interval of 300 s that the clock counts.  The *)
(* reference fetches that follow a document touch no shared state: their   *)
(* outcomes are drawn with the document, and their end is a later step,    *)
(* any number of intervals on.                                             *)
(*                                                                         *)
(* app.py and gui.py are separate programs over the same modules; a        *)
(* behaviour is a run of one of them.                                      *)
(*                                                                         *)
(* Time is in seconds.  winPercent is kept in thousandths (0.833 = 833).   *)
(***************************************************************************)
EXTENDS Integers, Sequences, FiniteSets, TLC

VARIABLES
    program,                \* the entry point that is running: "app.py" or "gui.py"
    now,                    \* time.time(), seconds
    events,                 \* history: user inputs handled so far
    standings_cache,        \* standings._cache: key -> grouping
    standings_cache_expiry, \* standings._cache_expiry: key -> instant
    leaders_cache,          \* stats_leaders._cache: key -> leaders dict
    leaders_cache_expiry,   \* stats_leaders._cache_expiry: key -> instant
    tasks,                  \* coroutines on the background loop, in submission order
    after_queue,            \* Tk's queue of after(0, ...) closures, in scheduling order
    current_standings,      \* NFLStatsApp.current_standings
    filtered_standings,     \* NFLStatsApp.filtered_standings: is it a dict, and which
    current_player_stats,   \* NFLStatsApp.current_player_stats
    standings_tree,         \* rows shown by the standings Treeview
    stat_trees,             \* category -> rows shown by that category's Treeview
    status_var,             \* status bar text
    standings_updated_var,  \* "Last updated" label of the standings tab
    player_stats_updated_var, \* "Last updated" label of the player stats tab
    logo_frame,             \* what the clicked logo frame shows
    current_tab,            \* tab_control: 0 = Standings, 1 = Player Stats
    stats_tab,              \* stats_notebook: index of the selected category
    year_var,               \* the year dropdown
    initial_pending,        \* root.after(100, initial_data_fetch) not yet run
    timer_due,              \* instant at which the armed schedule_refresh fires
    last,                   \* history: the call that completed most recently
    writer,                 \* history: the context that last assigned each snapshot
    called,                 \* a module function called directly: name and arguments
    result,                 \* what that call returned
    export                  \* an asynchronous export: coroutine, filename future

vars == <<program, now, events, standings_cache, standings_cache_expiry, leaders_cache,
          leaders_cache_expiry, tasks, after_queue, current_standings,
          filtered_standings, current_player_stats, standings_tree, stat_trees,
          status_var,
          standings_updated_var, player_stats_updated_var, logo_frame,
          current_tab, stats_tab, year_var, initial_pending, timer_due,
          last, writer, called, result, export>>

-----------------------------------------------------------------------------
(* Bounds of the model *)

MaxTicks == 3           \* the clock is read at 0, 1, .. MaxTicks refresh intervals
MaxSessionTicks == 2    \* the same, while the user acts
MaxInFlight == 2        \* coroutines alive on the background loop at once
MaxQueued == 6          \* closures waiting in Tk's queue
MaxEvents == 2          \* user inputs in one session

(* Program constants *)

STANDINGS_CACHE_DURATION == 600
LEADERS_CACHE_DURATION == 300
INITIAL_REFRESH_DELAY == 600
REFRESH_INTERVAL == 300
DEFAULT_NO_OF_PLAYERS == 5

None == "None"
NoDict == [x \in {} |-> <<>>]

\* str(datetime.now().year - 1): the season used when no year is passed
DefaultYear == "2024"
OtherYear == "2023"
Years == {DefaultYear, OtherYear}

STAT_CATEGORIES ==
    <<"passingYards", "rushingYards", "receivingYards", "sacks",
      "interceptions", "passingTouchdowns", "receptions">>

STAT_CATEGORY_NAMES == {STAT_CATEGORIES[i] : i \in 1..Len(STAT_CATEGORIES)}

DisplayName(category) ==
    CASE category = "passingYards" -> "Passing Yards"
      [] category = "rushingYards" -> "Rushing Yards"
      [] category = "receivingYards" -> "Receiving Yards"
      [] category = "sacks" -> "Sacks"
      [] category = "interceptions" -> "Interceptions"
      [] category = "passingTouchdowns" -> "Passing TDs"
      [] category = "receptions" -> "Receptions"


-----------------------------------------------------------------------------
(* Sequences *)

RECURSIVE Concat(_)
Concat(ss) == IF ss = <<>> THEN <<>> ELSE Head(ss) \o Concat(Tail(ss))

Range(s) == {s[i] : i \in 1..Len(s)}

-----------------------------------------------------------------------------
(* The upstream standings API, as fetch_standings reads it *)

REQUIRED_STATS ==
    {"wins", "losses", "ties", "winPercent",
     "pointsFor", "pointsAgainst", "pointDifferential"}

\* team resource (team['$ref']) and its group resource (groups['$ref'])
TeamData(id) ==
    CASE id = "DAL" -> [displayName |-> "Dallas Cowboys", abbreviation |-> "DAL",
                        group |-> "NFC East", logo |-> "dal.png", id |-> "6",
                        venue |-> "AT&T Stadium", address |-> "Arlington, TX"]
      [] id = "PHI" -> [displayName |-> "Philadelphia Eagles", abbreviation |-> "PHI",
                        group |-> "NFC East", logo |-> "phi.png", id |-> "21",
                        venue |-> "Lincoln Financial Field",
                        address |-> "Philadelphia, PA"]
      [] id = "BUF" -> [displayName |-> "Buffalo Bills", abbreviation |-> "BUF",
                        group |-> "AFC East", logo |-> None, id |-> "2",
                        venue |-> "Highmark Stadium", address |-> "Orchard Park, NY"]
      [] id = "NYG" -> [displayName |-> "New York Giants", abbreviation |-> "NYG",
                        group |-> "NFC East", logo |-> "nyg.png", id |-> "19",
                        venue |-> "MetLife Stadium", address |-> "East Rutherford, NJ"]
      [] id = "WAS" -> [displayName |-> "Washington Commanders", abbreviation |-> "WSH",
                        group |-> "NFC East", logo |-> "wsh.png", id |-> "28",
                        venue |-> "Northwest Stadium", address |-> "Landover, MD"]

\* entry['records'][0]['stats'] of a team for a season, at an upstream version:
\* the running season gains a game week per refresh interval, a past one is final
TeamStats(id, year, wk) ==
    LET w == CASE id = "DAL" -> IF year = DefaultYear THEN 8 + 2 * wk ELSE 12
               [] id = "PHI" -> IF year = DefaultYear THEN 10 ELSE 11
               [] id = "BUF" -> IF year = DefaultYear THEN 9 ELSE 13
        g == IF year = DefaultYear THEN (IF id = "BUF" THEN 12 ELSE 12 + wk) ELSE 17
    IN  [n \in REQUIRED_STATS |->
            CASE n = "wins" -> w
              [] n = "losses" -> g - w
              [] n = "ties" -> 0
              [] n = "winPercent" -> (w * 1000) \div g
              [] n = "pointsFor" -> 20 * w
              [] n = "pointsAgainst" -> 20 * (g - w)
              [] n = "pointDifferential" -> 20 * w - 20 * (g - w)]

\* One entry of data['standings'] with the outcome of its two reference fetches.
\* team / group: "ok", "status" (non-200) or "error" (the request or its JSON raises)
Entry(id, year, wk) ==
    [team |-> id, records |-> 3, stats |-> TeamStats(id, year, wk),
     team_fetch |-> "ok", group_fetch |-> "ok"]

ConferenceTeams(conf) == IF conf = "NFC" THEN <<"DAL", "PHI">> ELSE <<"BUF">>

\* fault: "none", "ClientError", "Timeout" or "Error" (any other exception, e.g. a
\* body that is not JSON); has_standings: the document has a 'standings' list
GoodStandings(conf, year, wk) ==
    [fault |-> "none", status |-> 200, has_standings |-> TRUE,
     standings |-> [i \in 1..Len(ConferenceTeams(conf)) |->
                        Entry(ConferenceTeams(conf)[i], year, wk)]]

FailedStandings ==
    {[fault |-> "none", status |-> 500, has_standings |-> FALSE, standings |-> <<>>],
     [fault |-> "ClientError", status |-> 0, has_standings |-> FALSE, standings |-> <<>>],
     [fault |-> "Timeout", status |-> 0, has_standings |-> FALSE, standings |-> <<>>],
     [fault |-> "none", status |-> 200, has_standings |-> FALSE, standings |-> <<>>]}

\* a document whose first entry cannot be completed
FlawedStandings(conf, year, wk) ==
    LET good == GoodStandings(conf, year, wk)
        flaw(e) == {[e EXCEPT !.team_fetch = "status"],
                    [e EXCEPT !.group_fetch = "error"],
                    [e EXCEPT !.stats = [n \in REQUIRED_STATS \ {"wins"} |-> e.stats[n]]]}
    IN  {[good EXCEPT !.standings[1] = f] : f \in flaw(good.standings[1])}

\* what a request for one conference partition can get
StandingsResponses(conf, year, wk) ==
    {GoodStandings(conf, year, wk)} \cup FailedStandings


-----------------------------------------------------------------------------
(* standings.fetch_standings *)

\* lines 36-122: the record of one entry, or none when a reference fetch fails or
\* the construction of team_info raises
TeamInfo(entry, conference_name) ==
    LET team_data == TeamData(entry.team)
        stats == entry.stats
    IN  IF entry.team_fetch = "error" \/ entry.group_fetch = "error" THEN <<>>
        ELSE IF entry.team_fetch # "ok" THEN <<>>
        ELSE IF entry.group_fetch # "ok" THEN <<>>
        ELSE IF ~(REQUIRED_STATS \subseteq DOMAIN stats) THEN <<>>
        ELSE IF entry.records < 3 THEN <<>>
        ELSE <<[conference |-> conference_name,
                division |-> team_data.group,
                name |-> team_data.displayName,
                abbreviation |-> team_data.abbreviation,
                wins |-> stats["wins"],
                losses |-> stats["losses"],
                ties |-> stats["ties"],
                winPercent |-> stats["winPercent"],
                logo |-> team_data.logo,
                pointsFor |-> stats["pointsFor"],
                pointsAgainst |-> stats["pointsAgainst"],
                pointDifferential |-> stats["pointDifferential"],
                venue |-> team_data.venue,
                address |-> team_data.address,
                team_id |-> team_data.id]>>

\* lines 32-34 are outside the inner try: an entry without records[0] raises to
\* the outer handler and the partition yields nothing
EntriesRaise(entries) == \E i \in 1..Len(entries) : entries[i].records < 1

\* the body without its inner try: an entry that cannot be completed raises to
\* the outer handlers and the partition yields nothing
fetch_standings_NoInnerTry(response, conference_name) ==
    IF response.fault # "none" THEN <<>>
    ELSE IF response.status # 200 THEN <<>>
    ELSE IF ~response.has_standings THEN <<>>
    ELSE IF EntriesRaise(response.standings) THEN <<>>
    ELSE IF \E i \in 1..Len(response.standings) :
                TeamInfo(response.standings[i], conference_name) = <<>> THEN <<>>
    ELSE Concat([i \in 1..Len(response.standings) |->
                    TeamInfo(response.standings[i], conference_name)])

fetch_standings(response, conference_name) ==
    IF response.fault # "none" THEN <<>>
    ELSE IF response.status # 200 THEN <<>>
    ELSE IF ~response.has_standings THEN <<>>
    ELSE IF EntriesRaise(response.standings) THEN <<>>
    ELSE Concat([i \in 1..Len(response.standings) |->
                    TeamInfo(response.standings[i], conference_name)])

-----------------------------------------------------------------------------
(* standings.update_standings: the pure parts *)

ResolveYear(year) == IF year = None THEN DefaultYear ELSE year

StandingsKey(year) == <<"standings", year>>

\* a key of wins alone
SortsBefore_WinsOnly(a, b) == a.wins > b.wins

\* the key of sorted(): (-wins, -winPercent)
SortsBefore(a, b) ==
    a.wins > b.wins \/ (a.wins = b.wins /\ a.winPercent > b.winPercent)

\* x goes in front of the first element it sorts before (stable)
RECURSIVE InsertTeam(_, _)
InsertTeam(x, s) ==
    IF s = <<>> THEN <<x>>
    ELSE IF SortsBefore(x, Head(s)) THEN <<x>> \o s
    ELSE <<Head(s)>> \o InsertTeam(x, Tail(s))

RECURSIVE SortFrom(_, _)
SortFrom(done, rest) ==
    IF rest = <<>> THEN done ELSE SortFrom(InsertTeam(Head(rest), done), Tail(rest))

sort_teams(teams) == SortFrom(<<>>, teams)

InDivision(teams, d) == SelectSeq(teams, LAMBDA t : t.division = d)

\* the records grouped under their conference
GroupByDivision_ByConference(all_standings) ==
    [c \in {all_standings[i].conference : i \in 1..Len(all_standings)} |->
        sort_teams(SelectSeq(all_standings, LAMBDA t : t.conference = c))]

\* lines 176-186
GroupByDivision(all_standings) ==
    [d \in {all_standings[i].division : i \in 1..Len(all_standings)} |->
        sort_teams(InDivision(all_standings, d))]

\* the freshness test with its comparison turned round
IsFresh_Reversed(cache, expiry, key, current_time) ==
    /\ key \in DOMAIN cache
    /\ (IF key \in DOMAIN expiry THEN expiry[key] ELSE 0) <= current_time

\* line 145 (and stats_leaders line 43)
IsFresh(cache, expiry, key, current_time) ==
    /\ key \in DOMAIN cache
    /\ (IF key \in DOMAIN expiry THEN expiry[key] ELSE 0) > current_time

Put(dict, key, value) ==
    [k \in DOMAIN dict \cup {key} |-> IF k = key THEN value ELSE dict[k]]

Get(dict, key, default) == IF key \in DOMAIN dict THEN dict[key] ELSE default

-----------------------------------------------------------------------------
(* The upstream leaders API, as fetch_stats_leaders reads it *)

\* the second argument of fetch_stats_leaders: an int (gui.py passes none and gets
\* the default 5) or a str (app.py line 924 passes the category name)
IntArg(n) == [is_int |-> TRUE, n |-> n, s |-> ""]
StrArg(s) == [is_int |-> FALSE, n |-> 0, s |-> s]

AthleteData(id) ==
    CASE id = "mahomes" -> [displayName |-> "Patrick Mahomes", position |-> "QB",
                            team |-> "KC", id |-> "3139477"]
      [] id = "allen" -> [displayName |-> "Josh Allen", position |-> "QB",
                          team |-> "BUF", id |-> "3918298"]
      [] id = "hurts" -> [displayName |-> "Jalen Hurts", position |-> "QB",
                          team |-> "PHI", id |-> "4040715"]
      [] id = "burrow" -> [displayName |-> "Joe Burrow", position |-> "QB",
                           team |-> "CIN", id |-> "3915511"]

LeaderTeam(id) ==
    CASE id = "KC" -> [displayName |-> "Kansas City Chiefs", abbreviation |-> "KC"]
      [] id = "BUF" -> [displayName |-> "Buffalo Bills", abbreviation |-> "BUF"]
      [] id = "PHI" -> [displayName |-> "Philadelphia Eagles", abbreviation |-> "PHI"]
      [] id = "CIN" -> [displayName |-> "Cincinnati Bengals", abbreviation |-> "CIN"]

\* One leader of a category with the outcome of its reference fetches.
\* athlete: an athlete id, or None when the leader carries no athlete $ref
\* athlete_fetch: "ok", "status" or "error"
\* team_fetch: "ok", "none" (athlete_data has no team), "status" or "error"
Leader(id, value) ==
    [athlete |-> id, athlete_fetch |-> "ok", team_fetch |-> "ok", value |-> value]

GoodLeaders(year, wk) ==
    [fault |-> "none", status |-> 200,
     categories |->
        <<[name |-> "passingYards",
           leaders |-> IF year = DefaultYear
                       THEN <<Leader("mahomes", 4000 + 300 * wk), Leader("allen", 3900)>>
                       ELSE <<Leader("hurts", 4500), Leader("allen", 4300)>>],
          [name |-> "totalTackles", leaders |-> <<Leader("allen", 1)>>]>>]

\* a 200 document that lists no category the program knows
NoLeaders == [fault |-> "none", status |-> 200, categories |-> <<>>]

FailedLeaders ==
    {[fault |-> "none", status |-> 500, categories |-> <<>>],
     [fault |-> "ClientError", status |-> 0, categories |-> <<>>],
     [fault |-> "Timeout", status |-> 0, categories |-> <<>>],
     [fault |-> "Error", status |-> 200, categories |-> <<>>]}

\* what the primary leaders request can get
LeadersResponses(year, wk) == {GoodLeaders(year, wk), NoLeaders} \cup FailedLeaders

-----------------------------------------------------------------------------
(* stats_leaders.fetch_stats_leaders: the pure parts *)

LeadersKey(year, no_of_players) == <<"leaders", year, no_of_players>>

\* a leader whose team reference cannot be fetched is dropped
LeaderInfo_TeamRequired(leader, i) ==
    IF leader.athlete = None THEN <<>>
    ELSE IF leader.athlete_fetch # "ok" THEN <<>>
    ELSE IF leader.team_fetch \in {"status", "error"} THEN <<>>
    ELSE
        LET athlete_data == AthleteData(leader.athlete)
            team_data == LeaderTeam(athlete_data.team)
            got_team == leader.team_fetch = "ok"
        IN  <<[name |-> athlete_data.displayName,
               position |-> athlete_data.position,
               team |-> IF got_team THEN team_data.displayName ELSE "Free Agent",
               team_abbr |-> IF got_team THEN team_data.abbreviation ELSE "FA",
               value |-> leader.value,
               rank |-> i + 1,
               athlete_id |-> athlete_data.id]>>

\* lines 74-114: the record of the leader at 0-based position i, or none
LeaderInfo(leader, i) ==
    IF leader.athlete = None THEN <<>>
    ELSE IF leader.athlete_fetch # "ok" THEN <<>>
    ELSE
        LET athlete_data == AthleteData(leader.athlete)
            team_data == LeaderTeam(athlete_data.team)
            got_team == leader.team_fetch = "ok"
        IN  <<[name |-> athlete_data.displayName,
               position |-> athlete_data.position,
               team |-> IF got_team THEN team_data.displayName ELSE "Free Agent",
               team_abbr |-> IF got_team THEN team_data.abbreviation ELSE "FA",
               value |-> leader.value,
               rank |-> i + 1,
               athlete_id |-> athlete_data.id]>>

\* the loop stopping at the first i > no_of_players
Taken_OneMore(leaders, no_of_players) ==
    IF Len(leaders) <= no_of_players.n + 1 THEN Len(leaders)
    ELSE IF no_of_players.n < 0 THEN 0 ELSE no_of_players.n + 1

\* lines 70-72: enumerate stops at the first i >= no_of_players
Taken(leaders, no_of_players) ==
    IF Len(leaders) <= no_of_players.n THEN Len(leaders)
    ELSE IF no_of_players.n < 0 THEN 0 ELSE no_of_players.n

\* the records of a category put in descending order of value
RECURSIVE InsertByValue(_, _)
InsertByValue(x, s) ==
    IF s = <<>> THEN <<x>>
    ELSE IF x.value > Head(s).value THEN <<x>> \o s
    ELSE <<Head(s)>> \o InsertByValue(x, Tail(s))

RECURSIVE SortedOnValue(_)
SortedOnValue(s) ==
    IF s = <<>> THEN <<>> ELSE InsertByValue(Head(s), SortedOnValue(Tail(s)))

CategoryLeaders_SortedOnValue(category, no_of_players) ==
    SortedOnValue(Concat([k \in 1..Taken(category.leaders, no_of_players) |->
                             LeaderInfo(category.leaders[k], k - 1)]))

\* the loop left at the first leader that yields no record
CategoryLeaders_StopAtFailure(category, no_of_players) ==
    LET taken == Taken(category.leaders, no_of_players)
        failed == {k \in 1..taken : LeaderInfo(category.leaders[k], k - 1) = <<>>}
        upto == IF failed = {} THEN taken
                ELSE (CHOOSE k \in failed : \A m \in failed : k <= m) - 1
    IN  Concat([k \in 1..upto |-> LeaderInfo(category.leaders[k], k - 1)])

\* lines 70-114: the records appended to leaders[category_name], in loop order
CategoryLeaders(category, no_of_players) ==
    Concat([k \in 1..Taken(category.leaders, no_of_players) |->
               LeaderInfo(category.leaders[k], k - 1)])

Known(categories) ==
    {k \in 1..Len(categories) : categories[k].name \in STAT_CATEGORY_NAMES}

\* line 71 compares an int with no_of_players: with a str it raises TypeError as
\* soon as a known category has a leader to enumerate
ComparisonRaises(categories, no_of_players) ==
    /\ ~no_of_players.is_int
    /\ \E k \in Known(categories) : Len(categories[k].leaders) > 0

\* lines 60-114: leaders[category_name] of every known category of the document
\* (a name listed twice keeps its last list)
LeadersDict(categories, no_of_players) ==
    [name \in {categories[k].name : k \in Known(categories)} |->
        LET k == CHOOSE j \in Known(categories) :
                    /\ categories[j].name = name
                    /\ \A m \in Known(categories) :
                           categories[m].name = name => m <= j
        IN  CategoryLeaders(categories[k], no_of_players)]

\* How the body of fetch_stats_leaders ends after the primary response:
\*   "stored"   lines 116-120: the dict is cached and returned
\*   "empty"    lines 55-57, 121-126: {} is returned, the cache is not consulted
\*   "fallback" lines 127-133: the cached value if there is one, else {}
LeadersOutcome(response, no_of_players) ==
    IF response.fault \in {"ClientError", "Timeout"} THEN "empty"
    ELSE IF response.fault # "none" THEN "fallback"
    ELSE IF response.status # 200 THEN "empty"
    ELSE IF ComparisonRaises(response.categories, no_of_players) THEN "fallback"
    ELSE "stored"

-----------------------------------------------------------------------------
(* image.fetch_logo_image, imported by app.py as fetch_image *)

ImageResponses ==
    {[fault |-> "none", status |-> 200, body |-> "png"],
     [fault |-> "none", status |-> 404, body |-> None],
     [fault |-> "Error", status |-> 0, body |-> None]}

fetch_image(response) ==
    IF response.fault # "none" THEN None
    ELSE IF response.status # 200 THEN None
    ELSE response.body

-----------------------------------------------------------------------------
(* app.NFLStatsApp: what the view shows *)

CONFERENCE_ORDER == <<"AFC", "NFC">>

\* the divisions taken in alphabetical order
DIVISION_ORDER_Alphabetical == <<"East", "North", "South", "West">>

\* line 738
DIVISION_ORDER == <<"North", "South", "East", "West">>

\* f"{conference_name} {division_suffix}"
DivisionName(conference_name, division_suffix) ==
    CASE conference_name = "AFC" /\ division_suffix = "North" -> "AFC North"
      [] conference_name = "AFC" /\ division_suffix = "South" -> "AFC South"
      [] conference_name = "AFC" /\ division_suffix = "East" -> "AFC East"
      [] conference_name = "AFC" /\ division_suffix = "West" -> "AFC West"
      [] conference_name = "NFC" /\ division_suffix = "North" -> "NFC North"
      [] conference_name = "NFC" /\ division_suffix = "South" -> "NFC South"
      [] conference_name = "NFC" /\ division_suffix = "East" -> "NFC East"
      [] conference_name = "NFC" /\ division_suffix = "West" -> "NFC West"

\* lines 740-750: conferences[conference][division_name]
ConferenceTeamsOf(standings_data, conference, division_name) ==
    IF division_name \in DOMAIN standings_data
    THEN SelectSeq(standings_data[division_name],
                   LAMBDA team : team.conference = conference)
    ELSE <<>>

StandingsRows(teams) ==
    LET sorted_teams == sort_teams(teams)
    IN  [i \in 1..Len(sorted_teams) |->
            <<i, sorted_teams[i].abbreviation, sorted_teams[i].name,
              sorted_teams[i].wins, sorted_teams[i].losses, sorted_teams[i].ties,
              sorted_teams[i].winPercent>>]

\* lines 731-794: the items of standings_tree after the call
update_standings_ui(standings_data) ==
    LET has_division(c, sfx) ==
            ConferenceTeamsOf(standings_data, c, DivisionName(c, sfx)) # <<>>
        has_conference(c) ==
            \E d \in DOMAIN standings_data :
                ConferenceTeamsOf(standings_data, c, d) # <<>>
        shown == SelectSeq(CONFERENCE_ORDER, has_conference)
        division_items(c) ==
            LET sfxs == SelectSeq(DIVISION_ORDER, LAMBDA sfx : has_division(c, sfx))
            IN  [k \in 1..Len(sfxs) |->
                    [text |-> DivisionName(c, sfxs[k]),
                     rows |-> StandingsRows(ConferenceTeamsOf(
                                  standings_data, c, DivisionName(c, sfxs[k])))]]
    IN  [k \in 1..Len(shown) |->
            [text |-> shown[k], divisions |-> division_items(shown[k])]]

\* lines 963-985: the items of the category's tree after the call
PlayerRows(players) ==
    [i \in 1..Len(players) |->
        <<players[i].rank, players[i].name, players[i].position,
          players[i].team_abbr, players[i].value>>]

\* the text of the status bar: a message and what it is about
Status(msg, about) == [msg |-> msg, about |-> about]

\* the closures handed to root.after(0, ...)
Closure(op, data, about, at) == [op |-> op, data |-> data, about |-> about, at |-> at]

-----------------------------------------------------------------------------
(* Coroutines on the background loop *)

\* One awaited request of a coroutine and the reference fetches that follow it.
\* phase: "pending" no response yet; "refs" the document is here and its
\* reference fetches are under way; "done" the awaiting code has its value.
Pending == [phase |-> "pending", requests |-> 0, value |-> <<>>]

\* the requests a coroutine awaits: the two gathered partitions of
\* update_standings, the primary request of fetch_stats_leaders, the image
Slots(kind) ==
    CASE kind = "standings" -> {"NFC", "AFC"}
      [] kind \in {"player_stats", "gui_leaders"} -> {"leaders"}
      [] kind = "logo" -> {"image"}

NotSeen == [has |-> FALSE, expiry |-> 0, value |-> NoDict]

\* kind: "standings"    fetch_and_display_standings(year)
\*       "player_stats" fetch_and_display_player_stats(year, category)
\*       "logo"         fetch_and_display_logo(widget, url)
\*       "gui_leaders"  gui.handle_year_change: fetch_stats_leaders(year)
Task(kind, year, category, no_of_players, widget, url) ==
    [kind |-> kind, year |-> year, category |-> category,
     no_of_players |-> no_of_players, widget |-> widget, url |-> url,
     pc |-> "queued", current_time |-> 0,
     fetch |-> [x \in Slots(kind) |-> Pending],
     seen |-> NotSeen, overlapped |-> FALSE, overtaken |-> FALSE]

StandingsTask(year) == Task("standings", year, None, IntArg(0), None, None)
PlayerStatsTask(year, category) ==
    Task("player_stats", year, category, StrArg(category), None, None)
LogoTask(widget, url) == Task("logo", None, None, IntArg(0), widget, url)
GuiLeadersTask(year) ==
    Task("gui_leaders", year, None, IntArg(DEFAULT_NO_OF_PLAYERS), None, None)

UsesStandingsCache(t) == t.kind = "standings"
UsesLeadersCache(t) == t.kind \in {"player_stats", "gui_leaders"}

CacheKey(t) ==
    IF UsesStandingsCache(t) THEN StandingsKey(ResolveYear(t.year))
    ELSE LeadersKey(ResolveYear(t.year), t.no_of_players)

SameEntry(t, u) ==
    /\ UsesStandingsCache(t) \/ UsesLeadersCache(t)
    /\ UsesStandingsCache(t) = UsesStandingsCache(u)
    /\ UsesLeadersCache(t) = UsesLeadersCache(u)
    /\ CacheKey(t) = CacheKey(u)

CacheOf(t) == IF UsesStandingsCache(t) THEN standings_cache ELSE leaders_cache
ExpiryOf(t) ==
    IF UsesStandingsCache(t) THEN standings_cache_expiry ELSE leaders_cache_expiry

\* the entry of a key as a call finds it
Entry_(cache, expiry, key) ==
    [has |-> key \in DOMAIN cache,
     expiry |-> Get(expiry, key, 0),
     value |-> Get(cache, key, NoDict)]

\* a failed request is made a second time
AfterResponse_Retry(slot, failed, value) ==
    [phase |-> IF failed THEN "done" ELSE "refs",
     requests |-> slot.requests + (IF failed THEN 2 ELSE 1), value |-> value]

\* session.get(url) returned (standings.py line 21, stats_leaders.py line 54,
\* image.py line 7): the request was made once; a failure ends the fetch, a
\* document leads on to its reference fetches
AfterResponse(slot, failed, value) ==
    [phase |-> IF failed THEN "done" ELSE "refs",
     requests |-> slot.requests + 1, value |-> value]

AllDone(t) == \A x \in DOMAIN t.fetch : t.fetch[x].phase = "done"

\* an entry already present is kept
StoreValue_KeepFirst(cache, key, value) ==
    IF key \in DOMAIN cache THEN cache ELSE Put(cache, key, value)

\* the result of a fetch that brought nothing is not stored
StoreValue_SkipEmpty(cache, key, value) ==
    IF value = NoDict THEN cache ELSE Put(cache, key, value)

\* standings.py lines 188-189 and stats_leaders.py lines 117-118
StoreValue(cache, key, value) == Put(cache, key, value)

\* an expiry counted from the time of the store
StoreExpiry_FromCompletion(expiry, key, current_time, duration) ==
    Put(expiry, key, now + duration)

\* standings.py line 189 and stats_leaders.py line 118
StoreExpiry(expiry, key, current_time, duration) ==
    Put(expiry, key, current_time + duration)

RemoveAt(seq, i) == SubSeq(seq, 1, i - 1) \o SubSeq(seq, i + 1, Len(seq))

-----------------------------------------------------------------------------
(* What a coroutine does when the cached operation returns *)

\* the status message scheduled ahead of the view update
Scheduled_StatusFirst(t, returned) ==
    CASE t.kind = "standings" ->
            <<Closure("status_var", <<>>, Status("Standings updated successfully", ""), 0),
              Closure("update_standings_ui", returned, None, 0),
              Closure("standings_updated_var", <<>>, None, now)>>
      [] t.kind = "player_stats" ->
            <<Closure("status_var", <<>>,
                      Status("data updated successfully", DisplayName(t.category)), 0),
              Closure("update_player_stats_category_ui",
                      Get(returned, t.category, <<>>), t.category, 0),
              Closure("player_stats_updated_var", <<>>, None, now)>>
      [] t.kind = "logo" ->
            IF returned # None
            THEN <<Closure("update_logo_widget", returned, None, t.widget)>>
            ELSE <<>>
      [] t.kind = "gui_leaders" -> <<>>

\* a category missing from the result reported through the except branch
Scheduled_AbsentIsError(t, returned) ==
    CASE t.kind = "standings" ->
            <<Closure("update_standings_ui", returned, None, 0),
              Closure("status_var", <<>>, Status("Standings updated successfully", ""), 0),
              Closure("standings_updated_var", <<>>, None, now)>>
      [] t.kind = "player_stats" ->
            IF t.category \in DOMAIN returned
            THEN <<Closure("update_player_stats_category_ui",
                           returned[t.category], t.category, 0),
                   Closure("status_var", <<>>,
                           Status("data updated successfully", DisplayName(t.category)),
                           0),
                   Closure("player_stats_updated_var", <<>>, None, now)>>
            ELSE <<Closure("status_var", <<>>,
                           Status("Error updating data", DisplayName(t.category)), 0)>>
      [] t.kind = "logo" ->
            IF returned # None
            THEN <<Closure("update_logo_widget", returned, None, t.widget)>>
            ELSE <<>>
      [] t.kind = "gui_leaders" -> <<>>

\* an empty grouping is reported as an error
Scheduled_EmptyIsError(t, returned) ==
    CASE t.kind = "standings" ->
            IF returned = NoDict
            THEN <<Closure("status_var", <<>>, Status("Error updating standings", ""), 0)>>
            ELSE <<Closure("update_standings_ui", returned, None, 0),
                   Closure("status_var", <<>>,
                           Status("Standings updated successfully", ""), 0),
                   Closure("standings_updated_var", <<>>, None, now)>>
      [] t.kind = "player_stats" ->
            <<Closure("update_player_stats_category_ui",
                      Get(returned, t.category, <<>>), t.category, 0),
              Closure("status_var", <<>>,
                      Status("data updated successfully", DisplayName(t.category)), 0),
              Closure("player_stats_updated_var", <<>>, None, now)>>
      [] t.kind = "logo" ->
            IF returned # None
            THEN <<Closure("update_logo_widget", returned, None, t.widget)>>
            ELSE <<>>
      [] t.kind = "gui_leaders" -> <<>>

\* app.py lines 708-721, 932-952, 1087-1091: the closures scheduled, in order
Scheduled(t, returned) ==
    CASE t.kind = "standings" ->
            <<Closure("update_standings_ui", returned, None, 0),
              Closure("status_var", <<>>, Status("Standings updated successfully", ""), 0),
              Closure("standings_updated_var", <<>>, None, now)>>
      [] t.kind = "player_stats" ->
            <<Closure("update_player_stats_category_ui",
                      Get(returned, t.category, <<>>), t.category, 0),
              Closure("status_var", <<>>,
                      Status("data updated successfully", DisplayName(t.category)), 0),
              Closure("player_stats_updated_var", <<>>, None, now)>>
      [] t.kind = "logo" ->
            IF returned # None
            THEN <<Closure("update_logo_widget", returned, None, t.widget)>>
            ELSE <<>>
      [] t.kind = "gui_leaders" -> <<>>

\* app.py line 706
StandingsSnapshotAfter(t, returned) ==
    IF t.kind = "standings" THEN returned ELSE current_standings

\* app.py lines 926-930
PlayerStatsSnapshotAfter(t, returned) ==
    IF t.kind # "player_stats" THEN current_player_stats
    ELSE [has |-> TRUE,
          stats |-> IF t.category \in DOMAIN returned
                    THEN Put(current_player_stats.stats, t.category,
                             returned[t.category])
                    ELSE current_player_stats.stats]

WriterAfter(t) ==
    [standings |-> IF t.kind = "standings" THEN "background" ELSE writer.standings,
     player_stats |-> IF t.kind = "player_stats" THEN "background"
                      ELSE writer.player_stats]

\* the record kept of a completed call
Completed(t, hit, outcome, returned, prior, scheduled) ==
    [kind |-> t.kind, key |-> CacheKey(t), category |-> t.category,
     current_time |-> t.current_time, hit |-> hit, outcome |-> outcome,
     requests |-> [x \in DOMAIN t.fetch |-> t.fetch[x].requests],
     returned |-> returned, prior |-> prior, seen |-> t.seen,
     overlapped |-> t.overlapped, overtaken |-> t.overtaken,
     scheduled |-> scheduled]

NoCall ==
    [kind |-> "none", key |-> <<>>, category |-> None,
     current_time |-> 0, hit |-> FALSE, outcome |-> "none",
     requests |-> NoDict, returned |-> NoDict, prior |-> NotSeen, seen |-> NotSeen,
     overlapped |-> FALSE, overtaken |-> FALSE, scheduled |-> 0]

\* The coroutine tasks[i] ends: it assigns the snapshot, schedules its closures
\* and leaves the loop.  stored: it wrote its cache entry on the way.
Return(i, t, hit, outcome, returned, stored) ==
    LET closures == Scheduled(t, returned)
        rest == RemoveAt(tasks, i)
        mark(u, j) == IF stored /\ j < i /\ SameEntry(t, u)
                      THEN [u EXCEPT !.overtaken = TRUE] ELSE u
    IN  /\ Len(after_queue) + Len(closures) <= MaxQueued
        /\ after_queue' = after_queue \o closures
        /\ tasks' = [j \in 1..Len(rest) |-> mark(rest[j], j)]
        /\ current_standings' = StandingsSnapshotAfter(t, returned)
        /\ filtered_standings' = filtered_standings
        /\ current_player_stats' = PlayerStatsSnapshotAfter(t, returned)
        /\ writer' = WriterAfter(t)
        /\ last' = Completed(t, hit, outcome, returned,
                             IF t.kind = "logo" THEN NotSeen
                             ELSE Entry_(CacheOf(t), ExpiryOf(t), CacheKey(t)),
                             Len(closures))

-----------------------------------------------------------------------------
(* Initial state: NFLStatsApp.__init__ has returned *)

Programs == {"app.py", "gui.py"}

\* the category tabs the user selects, and the teams whose row is clicked
UserCategoryTabs == {0, 1}
UserTeams == {"DAL", "BUF"}

\* the upstream's data version at an instant
Week(t) == t \div REFRESH_INTERVAL

\* no module function is called directly, no export is under way
NotCalled == [fn |-> "none"]
NoResult == [done |-> FALSE, raised |-> FALSE, value |-> <<>>]
NoExport ==
    [pc |-> "none", filetype |-> None, future |-> "none", filename |-> None,
     set_results |-> 0, set_on |-> "none", resolved_after |-> None]

\* NFLStatsApp.__init__ lines 221-243, and the module globals
Constructed ==
    /\ now = 0
    /\ events = 0
    /\ standings_cache = NoDict
    /\ standings_cache_expiry = NoDict
    /\ leaders_cache = NoDict
    /\ leaders_cache_expiry = NoDict
    /\ tasks = <<>>
    /\ after_queue = <<>>
    /\ current_standings = NoDict
    /\ filtered_standings = [has |-> FALSE, value |-> NoDict]
    /\ current_player_stats = [has |-> FALSE, stats |-> NoDict]
    /\ standings_tree = <<>>
    /\ stat_trees = [c \in STAT_CATEGORY_NAMES |-> <<>>]
    /\ status_var = Status("Ready", "")
    /\ standings_updated_var = -1
    /\ player_stats_updated_var = -1
    /\ logo_frame = [a \in UserTeams |-> [url |-> None, shows |-> "closed"]]
    /\ current_tab = 0
    /\ stats_tab = 0
    /\ year_var = DefaultYear
    /\ initial_pending = TRUE
    /\ timer_due = INITIAL_REFRESH_DELAY
    /\ last = NoCall
    /\ writer = [standings |-> "init", player_stats |-> "init"]
    /\ export = NoExport

Init ==
    /\ program \in Programs
    /\ Constructed
    /\ called = NotCalled
    /\ result = NoResult

caches == <<standings_cache, standings_cache_expiry, leaders_cache,
            leaders_cache_expiry>>
snapshots == <<current_standings, filtered_standings, current_player_stats, writer>>
widgets == <<standings_tree, stat_trees, standings_updated_var,
             player_stats_updated_var>>
selection == <<current_tab, stats_tab, year_var>>
direct == <<called, result>>
world == <<program, now, direct, export>>

-----------------------------------------------------------------------------
(* The background loop *)

Room == Len(tasks) < MaxInFlight

\* The loop starts the coroutines in the order they were submitted.  The step
\* runs to the first suspension point: update_standings lines 139-149 (and
\* fetch_stats_leaders lines 35-45); on a fresh entry the coroutine runs to its end.
Start(i) ==
    /\ tasks[i].pc = "queued"
    /\ \A j \in 1..(i - 1) : tasks[j].pc # "queued"
    /\ LET cached == UsesStandingsCache(tasks[i]) \/ UsesLeadersCache(tasks[i])
           others == {j \in 1..Len(tasks) :
                        j # i /\ tasks[j].pc # "queued" /\ SameEntry(tasks[i], tasks[j])}
           t == [tasks[i] EXCEPT
                    !.current_time = now,
                    !.overlapped = others # {},
                    !.seen = IF cached
                             THEN Entry_(CacheOf(tasks[i]), ExpiryOf(tasks[i]),
                                         CacheKey(tasks[i]))
                             ELSE NotSeen]
       IN  IF cached /\ IsFresh(CacheOf(t), ExpiryOf(t), CacheKey(t), now)
           THEN /\ Return(i, t, TRUE, "hit", CacheOf(t)[CacheKey(t)], FALSE)
                /\ UNCHANGED <<caches, world, events, widgets, selection, status_var,
                               logo_frame, initial_pending, timer_due>>
           ELSE /\ tasks' = [j \in 1..Len(tasks) |->
                                IF j = i THEN [t EXCEPT !.pc = "fetching"]
                                ELSE IF j \in others
                                     THEN [tasks[j] EXCEPT !.overlapped = TRUE]
                                     ELSE tasks[j]]
                /\ UNCHANGED <<caches, world, events, widgets, selection, status_var,
                               logo_frame, initial_pending, timer_due, after_queue,
                               snapshots, last>>

\* What the request x of coroutine t can get from the network.  The request is
\* under ClientTimeout(total=10) (5 for an image), far less than a refresh
\* interval, so the document is the one the upstream served when the coroutine
\* started; the reference fetches that follow it have no such limit.
ResponsesFor(t, x) ==
    CASE t.kind = "standings" ->
            StandingsResponses(x, ResolveYear(t.year), Week(t.current_time))
      [] UsesLeadersCache(t) ->
            LeadersResponses(ResolveYear(t.year), Week(t.current_time))
      [] t.kind = "logo" ->
            IF t.url = None THEN {r \in ImageResponses : r.fault # "none"}
            ELSE ImageResponses

\* the request itself failed, or its document leads to no reference fetch
\* (stats_leaders.py line 71 raises at the first leader, before any)
EndsFetch(t, response) ==
    CASE t.kind = "standings" ->
            response.fault # "none" \/ response.status # 200
                \/ ~response.has_standings
      [] UsesLeadersCache(t) ->
            response.fault # "none" \/ response.status # 200
                \/ response.categories = <<>>
                \/ ComparisonRaises(response.categories, t.no_of_players)
      [] t.kind = "logo" -> TRUE

\* what the awaiting code has once the fetch of x is over
Received(t, x, response) ==
    CASE t.kind = "standings" -> fetch_standings(response, x)
      [] UsesLeadersCache(t) -> response
      [] t.kind = "logo" -> fetch_image(response)

\* A response arrives for one awaited request of a coroutine.
Respond(i, x) ==
    /\ tasks[i].pc = "fetching"
    /\ tasks[i].fetch[x].phase = "pending"
    /\ \E response \in ResponsesFor(tasks[i], x) :
          tasks' = [tasks EXCEPT ![i].fetch[x] =
                       AfterResponse(@, EndsFetch(tasks[i], response),
                                     Received(tasks[i], x, response))]
    /\ UNCHANGED <<caches, world, events, widgets, selection, status_var,
                   logo_frame, initial_pending, timer_due, after_queue, snapshots,
                   last>>

\* The reference fetches of a document are over (standings.py lines 36-122,
\* stats_leaders.py lines 74-114).
Resolve(i, x) ==
    /\ tasks[i].pc = "fetching"
    /\ tasks[i].fetch[x].phase = "refs"
    /\ tasks' = [tasks EXCEPT ![i].fetch[x].phase = "done"]
    /\ UNCHANGED <<caches, world, events, widgets, selection, status_var,
                   logo_frame, initial_pending, timer_due, after_queue, snapshots,
                   last>>

\* update_standings lines 164-191 once gather has both lists (fetch_standings
\* never raises, so the handler of lines 169-174 is never entered), then
\* fetch_and_display_standings lines 706-721
CompleteStandings(i) ==
    /\ tasks[i].kind = "standings"
    /\ tasks[i].pc = "fetching"
    /\ AllDone(tasks[i])
    /\ LET t == tasks[i]
           cache_key == CacheKey(t)
           all_standings == t.fetch["NFC"].value \o t.fetch["AFC"].value
           divisions == GroupByDivision(all_standings)
       IN  /\ standings_cache' = StoreValue(standings_cache, cache_key, divisions)
           /\ standings_cache_expiry' =
                  StoreExpiry(standings_cache_expiry, cache_key, t.current_time,
                              STANDINGS_CACHE_DURATION)
           /\ Return(i, t, FALSE, "stored", divisions, TRUE)
    /\ UNCHANGED <<leaders_cache, leaders_cache_expiry, world, events, widgets, selection,
                   status_var, logo_frame, initial_pending, timer_due>>

\* fetch_stats_leaders lines 55-133 after the primary response, then
\* fetch_and_display_player_stats lines 926-952 (nothing more for gui.py's call)
CompleteLeaders(i) ==
    /\ UsesLeadersCache(tasks[i])
    /\ tasks[i].pc = "fetching"
    /\ AllDone(tasks[i])
    /\ LET t == tasks[i]
           cache_key == CacheKey(t)
           response == t.fetch["leaders"].value
           outcome == LeadersOutcome(response, t.no_of_players)
           leaders == LeadersDict(response.categories, t.no_of_players)
       IN  CASE outcome = "stored" ->
                  /\ leaders_cache' = StoreValue(leaders_cache, cache_key, leaders)
                  /\ leaders_cache_expiry' =
                         StoreExpiry(leaders_cache_expiry, cache_key, t.current_time,
                                     LEADERS_CACHE_DURATION)
                  /\ Return(i, t, FALSE, outcome, leaders, TRUE)
             [] outcome = "empty" ->
                  /\ UNCHANGED <<leaders_cache, leaders_cache_expiry>>
                  /\ Return(i, t, FALSE, outcome, NoDict, FALSE)
             [] outcome = "fallback" ->
                  /\ UNCHANGED <<leaders_cache, leaders_cache_expiry>>
                  /\ Return(i, t, FALSE, outcome,
                            Get(leaders_cache, cache_key, NoDict), FALSE)
    /\ UNCHANGED <<standings_cache, standings_cache_expiry, world, events, widgets,
                   selection, status_var, logo_frame, initial_pending, timer_due>>

\* fetch_and_display_logo lines 1085-1091: fetch_image never raises
CompleteLogo(i) ==
    /\ tasks[i].kind = "logo"
    /\ tasks[i].pc = "fetching"
    /\ AllDone(tasks[i])
    /\ Return(i, tasks[i], FALSE, "none", tasks[i].fetch["image"].value, FALSE)
    /\ UNCHANGED <<caches, world, events, widgets, selection, status_var, logo_frame,
                   initial_pending, timer_due>>

-----------------------------------------------------------------------------
(* The presentation context of app.py: handlers *)

background == <<caches, snapshots, last, after_queue>>

\* a user input is handled by the running app
UserInput ==
    /\ program = "app.py"
    /\ events < MaxEvents
    /\ events' = events + 1

\* refresh_standings(year), lines 690-699
refresh_standings(year) ==
    /\ Room
    /\ status_var' = Status("Refreshing standings...", "")
    /\ tasks' = Append(tasks, StandingsTask(year))

\* refresh_player_stats(category, year), lines 908-918: STAT_CATEGORIES[category]
\* raises KeyError before anything is set or submitted
refresh_player_stats(category, year) ==
    IF category \in STAT_CATEGORY_NAMES
    THEN /\ Room
         /\ status_var' = Status("Loading data...", DisplayName(category))
         /\ tasks' = Append(tasks, PlayerStatsTask(year, category))
    ELSE UNCHANGED <<status_var, tasks>>

\* lines 297-308, 313-326: what a tab or year change does for the active tab
RefreshActive(tab, category_tab, selected_year) ==
    IF tab = 0 THEN refresh_standings(selected_year)
    ELSE IF category_tab < Len(STAT_CATEGORIES)
         THEN refresh_player_stats(STAT_CATEGORIES[category_tab + 1], selected_year)
         ELSE UNCHANGED <<status_var, tasks>>

\* lines 661-670, run once by root.after(100, ...)
initial_data_fetch ==
    /\ program = "app.py"
    /\ initial_pending
    /\ Room
    /\ initial_pending' = FALSE
    /\ status_var' = Status("Fetching initial data...", "")
    /\ tasks' = Append(tasks, StandingsTask(None))
    /\ UNCHANGED <<background, world, events, widgets, selection, logo_frame,
                   timer_due>>

\* a timer that refreshes the season selected in the dropdown
schedule_refresh_SelectedYear ==
    /\ program = "app.py"
    /\ ~initial_pending
    /\ now >= timer_due
    /\ timer_due' = now + REFRESH_INTERVAL
    /\ IF current_tab = 0 THEN refresh_standings(year_var)
       ELSE IF stats_tab < Len(STAT_CATEGORIES)
            THEN refresh_player_stats(year_var, STAT_CATEGORIES[stats_tab + 1])
            ELSE UNCHANGED <<status_var, tasks>>
    /\ UNCHANGED <<background, world, events, widgets, selection, logo_frame,
                   initial_pending>>

\* a timer that arms its next firing after the refresh: a refresh that raises
\* leaves the callback before root.after, and no firing is pending any more
schedule_refresh_RearmsLast ==
    /\ program = "app.py"
    /\ ~initial_pending
    /\ now >= timer_due
    /\ LET raised == current_tab # 0 /\ stats_tab < Len(STAT_CATEGORIES)
                         /\ year_var \notin STAT_CATEGORY_NAMES
           never == (MaxTicks + 2) * REFRESH_INTERVAL
       IN  timer_due' = IF raised THEN never ELSE now + REFRESH_INTERVAL
    /\ IF current_tab = 0 THEN refresh_standings(None)
       ELSE IF stats_tab < Len(STAT_CATEGORIES)
            THEN refresh_player_stats(year_var, STAT_CATEGORIES[stats_tab + 1])
            ELSE UNCHANGED <<status_var, tasks>>
    /\ UNCHANGED <<background, world, events, widgets, selection, logo_frame,
                   initial_pending>>

\* lines 672-688: the periodic timer fires
schedule_refresh ==
    /\ program = "app.py"
    /\ ~initial_pending
    /\ now >= timer_due
    /\ timer_due' = now + REFRESH_INTERVAL
    /\ IF current_tab = 0 THEN refresh_standings(None)
       ELSE IF stats_tab < Len(STAT_CATEGORIES)
            THEN refresh_player_stats(year_var, STAT_CATEGORIES[stats_tab + 1])
            ELSE UNCHANGED <<status_var, tasks>>
    /\ UNCHANGED <<background, world, events, widgets, selection, logo_frame,
                   initial_pending>>

\* line 371: the "Refresh Data" button
refresh_button ==
    /\ UserInput
    /\ current_tab = 0
    /\ refresh_standings(None)
    /\ UNCHANGED <<background, world, widgets, selection, logo_frame,
                   initial_pending, timer_due>>

\* lines 294-310: the user picks a year in the dropdown
on_year_change(selected_year) ==
    /\ UserInput
    /\ year_var' = selected_year
    /\ RefreshActive(current_tab, stats_tab, selected_year)
    /\ UNCHANGED <<background, world, widgets, current_tab, stats_tab, logo_frame,
                   initial_pending, timer_due>>

\* lines 312-326: the user selects the other tab
on_tab_change(tab) ==
    /\ UserInput
    /\ tab # current_tab
    /\ current_tab' = tab
    /\ RefreshActive(tab, stats_tab, year_var)
    /\ UNCHANGED <<background, world, widgets, stats_tab, year_var, logo_frame,
                   initial_pending, timer_due>>

\* lines 328-337: the user selects another category tab
on_stats_tab_change(category_tab) ==
    /\ UserInput
    /\ current_tab = 1
    /\ category_tab # stats_tab
    /\ stats_tab' = category_tab
    /\ RefreshActive(1, category_tab, year_var)
    /\ UNCHANGED <<background, world, widgets, current_tab, year_var, logo_frame,
                   initial_pending, timer_due>>

\* the tags of the team rows of standings_tree
ShownTeams ==
    UNION {UNION {{standings_tree[c].divisions[d].rows[r][2] :
                      r \in 1..Len(standings_tree[c].divisions[d].rows)} :
                  d \in 1..Len(standings_tree[c].divisions)} :
           c \in 1..Len(standings_tree)}

SnapshotTeams == UNION {Range(current_standings[d]) : d \in DOMAIN current_standings}

\* lines 801-846: a click on a team row opens the team's detail window, whose
\* logo frame is bound to load_photo(logo_frame, team_data['logo'])
on_team_click(team_abbr) ==
    /\ UserInput
    /\ logo_frame[team_abbr].shows = "closed"
    /\ team_abbr \in ShownTeams
    /\ \E team \in SnapshotTeams : team.abbreviation = team_abbr
    /\ LET team_data == CHOOSE team \in SnapshotTeams : team.abbreviation = team_abbr
       IN  logo_frame' = [logo_frame EXCEPT ![team_abbr] =
                             [url |-> team_data.logo, shows |-> "Click to load logo"]]
    /\ UNCHANGED <<background, world, widgets, selection, status_var, tasks,
                   initial_pending, timer_due>>

\* lines 1067-1081: a click on the logo label of a detail window
load_photo(w) ==
    /\ UserInput
    /\ logo_frame[w].shows = "Click to load logo"
    /\ Room
    /\ logo_frame' = [logo_frame EXCEPT ![w].shows = "Loading..."]
    /\ tasks' = Append(tasks, LogoTask(w, logo_frame[w].url))
    /\ UNCHANGED <<background, world, widgets, selection, status_var,
                   initial_pending, timer_due>>

\* lines 1100-1128: what the frame shows after update_logo_widget
LogoShown(image_data, error_text) ==
    IF error_text # None THEN "error"
    ELSE IF image_data = None THEN "Logo not available"
    ELSE "image"

\* The main loop runs the closure at the head of its queue.
run_closure ==
    /\ after_queue # <<>>
    /\ Head(after_queue).op # "get_save_filename_ext"
    /\ after_queue' = Tail(after_queue)
    /\ LET c == Head(after_queue)
       IN  /\ standings_tree' =
                  IF c.op = "update_standings_ui" THEN update_standings_ui(c.data)
                  ELSE standings_tree
           /\ status_var' = IF c.op = "status_var" THEN c.about ELSE status_var
           /\ standings_updated_var' =
                  IF c.op = "standings_updated_var" THEN c.at
                  ELSE standings_updated_var
           /\ stat_trees' =
                  IF c.op = "update_player_stats_category_ui"
                        /\ c.about \in DOMAIN stat_trees
                  THEN [stat_trees EXCEPT ![c.about] = PlayerRows(c.data)]
                  ELSE stat_trees
           /\ player_stats_updated_var' =
                  IF c.op = "player_stats_updated_var" THEN c.at
                  ELSE player_stats_updated_var
           /\ logo_frame' =
                  IF c.op = "update_logo_widget"
                  THEN [logo_frame EXCEPT ![c.at].shows = LogoShown(c.data, None)]
                  ELSE logo_frame
    /\ UNCHANGED <<caches, snapshots, last, world, events, selection, tasks,
                   initial_pending, timer_due>>

-----------------------------------------------------------------------------
(* gui.py: the blocking caller of fetch_stats_leaders(year) *)

\* gui.py lines 160-180 and 195: one call at a time, run to completion by the
\* loop of the callback
year_callback(year) ==
    /\ program = "gui.py"
    /\ tasks = <<>>
    /\ tasks' = Append(tasks, GuiLeadersTask(year))
    /\ UNCHANGED <<background, world, events, widgets, selection, status_var,
                   logo_frame, initial_pending, timer_due>>

\* The handler that started the coroutine t is still running: app.py's handlers
\* return from run_coroutine_threadsafe at once (lines 670, 699, 918, 1081),
\* gui.py's year_callback sits in loop.run_until_complete (line 176) until
\* handle_year_change has returned
HandlerWaits(t) == t.kind = "gui_leaders"

-----------------------------------------------------------------------------
(* The environment *)

\* A refresh interval passes.  Both loops are idle by then: what was submitted
\* has started, what was scheduled has run, and a coroutine still alive is
\* waiting for reference fetches.  In app.py the initial fetch and a due timer
\* have run.
Tick ==
    /\ program = "app.py" => ~initial_pending /\ timer_due > now
    /\ after_queue = <<>>
    /\ \A i \in 1..Len(tasks) :
          /\ tasks[i].pc = "fetching"
          /\ \A x \in DOMAIN tasks[i].fetch : tasks[i].fetch[x].phase # "pending"
          /\ \E x \in DOMAIN tasks[i].fetch : tasks[i].fetch[x].phase = "refs"
    /\ now < MaxTicks * REFRESH_INTERVAL
    /\ now' = now + REFRESH_INTERVAL
    /\ UNCHANGED <<program, direct, export, events, background, widgets, selection,
                   status_var, logo_frame, tasks, initial_pending, timer_due>>

-----------------------------------------------------------------------------

Next ==
    \/ initial_data_fetch
    \/ schedule_refresh
    \/ refresh_button
    \/ \E y \in Years : on_year_change(y)
    \/ \E tab \in {0, 1} : on_tab_change(tab)
    \/ \E c \in UserCategoryTabs : on_stats_tab_change(c)
    \/ \E a \in UserTeams : on_team_click(a)
    \/ \E a \in UserTeams : load_photo(a)
    \/ run_closure
    \/ \E y \in Years : year_callback(y)
    \/ \E i \in 1..Len(tasks) : Start(i)
    \/ \E i \in 1..Len(tasks) : \E x \in DOMAIN tasks[i].fetch : Respond(i, x)
    \/ \E i \in 1..Len(tasks) : \E x \in DOMAIN tasks[i].fetch : Resolve(i, x)
    \/ \E i \in 1..Len(tasks) : CompleteStandings(i)
    \/ \E i \in 1..Len(tasks) : CompleteLeaders(i)
    \/ \E i \in 1..Len(tasks) : CompleteLogo(i)
    \/ Tick

Everything == Init /\ [][Next]_vars

-----------------------------------------------------------------------------
(* The cached operations and their callers: app.py left on its standings tab,
   refreshed by its timer, and gui.py *)

NextCached ==
    \/ initial_data_fetch
    \/ schedule_refresh
    \/ run_closure
    \/ \E y \in Years : year_callback(y)
    \/ \E i \in 1..Len(tasks) : Start(i)
    \/ \E i \in 1..Len(tasks) : \E x \in DOMAIN tasks[i].fetch : Respond(i, x)
    \/ \E i \in 1..Len(tasks) : \E x \in DOMAIN tasks[i].fetch : Resolve(i, x)
    \/ \E i \in 1..Len(tasks) : CompleteStandings(i)
    \/ \E i \in 1..Len(tasks) : CompleteLeaders(i)
    \/ Tick

Spec == Init /\ [][NextCached]_vars

-----------------------------------------------------------------------------
(* app.py with the user moving between the tabs *)

\* app.py is the program started
InitApp == Init /\ program = "app.py"

\* a refresh interval passes in a session watched for MaxSessionTicks intervals
SessionTick ==
    /\ now < MaxSessionTicks * REFRESH_INTERVAL
    /\ Tick

NextTabs ==
    \/ initial_data_fetch
    \/ schedule_refresh
    \/ \E tab \in {0, 1} : on_tab_change(tab)
    \/ \E c \in UserCategoryTabs : on_stats_tab_change(c)
    \/ run_closure
    \/ \E i \in 1..Len(tasks) : Start(i)
    \/ \E i \in 1..Len(tasks) : \E x \in DOMAIN tasks[i].fetch : Respond(i, x)
    \/ \E i \in 1..Len(tasks) : \E x \in DOMAIN tasks[i].fetch : Resolve(i, x)
    \/ \E i \in 1..Len(tasks) : CompleteStandings(i)
    \/ \E i \in 1..Len(tasks) : CompleteLeaders(i)
    \/ SessionTick

SpecTabs == InitApp /\ [][NextTabs]_vars

-----------------------------------------------------------------------------
(* app.py's refreshes on a change of tab, and the coroutines they submit *)

NextStats ==
    \/ \E tab \in {0, 1} : on_tab_change(tab)
    \/ \E c \in UserCategoryTabs : on_stats_tab_change(c)
    \/ run_closure
    \/ \E i \in 1..Len(tasks) : Start(i)
    \/ \E i \in 1..Len(tasks) : \E x \in DOMAIN tasks[i].fetch : Respond(i, x)
    \/ \E i \in 1..Len(tasks) : \E x \in DOMAIN tasks[i].fetch : Resolve(i, x)
    \/ \E i \in 1..Len(tasks) : CompleteStandings(i)
    \/ \E i \in 1..Len(tasks) : CompleteLeaders(i)

SpecStats == InitApp /\ [][NextStats]_vars

-----------------------------------------------------------------------------
(* app.py with the user on the standings tab: refreshing, opening team details
   and loading logos *)

NextDetails ==
    \/ initial_data_fetch
    \/ schedule_refresh
    \/ refresh_button
    \/ \E a \in UserTeams : on_team_click(a)
    \/ \E a \in UserTeams : load_photo(a)
    \/ run_closure
    \/ \E i \in 1..Len(tasks) : Start(i)
    \/ \E i \in 1..Len(tasks) : \E x \in DOMAIN tasks[i].fetch : Respond(i, x)
    \/ \E i \in 1..Len(tasks) : \E x \in DOMAIN tasks[i].fetch : Resolve(i, x)
    \/ \E i \in 1..Len(tasks) : CompleteStandings(i)
    \/ \E i \in 1..Len(tasks) : CompleteLogo(i)
    \/ SessionTick

SpecDetails == InitApp /\ [][NextDetails]_vars

-----------------------------------------------------------------------------
(* The asynchronous export of the standings.  No widget submits the coroutine
   (the export buttons call the _sync methods); it is submitted here the way
   every other coroutine of the class is, to the background loop.

   export.pc: "none", "submitted", "awaiting" (at `await filename_future`),
              "no_data", "no_filename", "finished"
   export.future: "none", "pending", "resolved"
   export.resolved_after: the call that had completed last when the future was
              resolved *)

FileTypes == {"csv", "pdf"}
FileNames == {"", "NFL_Standings.csv"}

export_rest == <<program, now, direct, events, caches, snapshots, last, widgets,
                 selection, status_var, logo_frame, tasks, initial_pending,
                 timer_due>>

\* asyncio.run_coroutine_threadsafe(self.export_standings_to_file(filetype), self.loop)
submit_export(filetype) ==
    /\ UserInput
    /\ export.pc = "none"
    /\ export' = [export EXCEPT !.pc = "submitted", !.filetype = filetype]
    /\ UNCHANGED <<program, now, direct, background, widgets, selection, status_var,
                   logo_frame, tasks, initial_pending, timer_due>>

\* export_standings_to_file lines 1409-1442, up to the await
export_standings_to_file ==
    /\ export.pc = "submitted"
    /\ Len(after_queue) < MaxQueued
    /\ IF DOMAIN current_standings = {}
       THEN /\ after_queue' = Append(after_queue,
                                     Closure("showinfo", <<>>,
                                             "No standings data to export", 0))
            /\ export' = [export EXCEPT !.pc = "no_data"]
       ELSE /\ after_queue' = Append(after_queue,
                                     Closure("get_save_filename_ext", <<>>,
                                             export.filetype, 0))
            /\ export' = [export EXCEPT !.pc = "awaiting", !.future = "pending"]
    /\ UNCHANGED export_rest

\* get_save_filename_ext lines 1482-1503, run by the main loop: the dialog
\* returns the name chosen ("" when it is cancelled) and future.set_result is
\* called on the main thread.  set_result puts the wake-up of the coroutine on
\* the loop with call_soon, which does not wake a loop that sleeps.
get_save_filename_ext(filename) ==
    /\ after_queue # <<>>
    /\ Head(after_queue).op = "get_save_filename_ext"
    /\ after_queue' = Tail(after_queue)
    /\ export' = [export EXCEPT !.future = "resolved",
                                !.filename = filename,
                                !.set_results = @ + 1,
                                !.set_on = "presentation",
                                !.resolved_after = last]
    /\ UNCHANGED export_rest

\* The background loop runs an iteration after the resolution: a coroutine is
\* submitted or alive, or one has completed since.
LoopNotified == tasks # <<>> \/ last # export.resolved_after

\* schedule_refresh lines 672-688: the next firing of the timer submits a
\* coroutine on the Standings tab only
TimerWillSubmit == current_tab = 0

\* export_standings_to_file lines 1442-1480, from the await on: the loop runs the
\* wake-up that set_result left
export_standings_resumed(success) ==
    /\ export.pc = "awaiting"
    /\ export.future = "resolved"
    /\ LoopNotified
    /\ Len(after_queue) < MaxQueued
    /\ IF export.filename = ""
       THEN /\ export' = [export EXCEPT !.pc = "no_filename"]
            /\ UNCHANGED after_queue
       ELSE /\ export' = [export EXCEPT !.pc = "finished"]
            /\ after_queue' =
                   Append(after_queue,
                          Closure(IF export.filetype = "csv" /\ success
                                  THEN "showinfo" ELSE "showerror",
                                  <<>>, export.filetype, 0))
    /\ UNCHANGED export_rest

NextExport ==
    \/ initial_data_fetch
    \/ \E tab \in {0, 1} : on_tab_change(tab)
    \/ run_closure
    \/ \E i \in 1..Len(tasks) : Start(i)
    \/ \E i \in 1..Len(tasks) : \E x \in DOMAIN tasks[i].fetch : Respond(i, x)
    \/ \E i \in 1..Len(tasks) : \E x \in DOMAIN tasks[i].fetch : Resolve(i, x)
    \/ \E i \in 1..Len(tasks) : CompleteStandings(i)
    \/ \E i \in 1..Len(tasks) : CompleteLeaders(i)
    \/ \E f \in FileTypes : submit_export(f)
    \/ export_standings_to_file
    \/ \E n \in FileNames : get_save_filename_ext(n)
    \/ \E ok \in BOOLEAN : export_standings_resumed(ok)

SpecExport == InitApp /\ [][NextExport]_vars

-----------------------------------------------------------------------------
(* standings.py and stats_leaders.py called directly, as their own test entry
   points do (standings.py lines 196-210, stats_leaders.py lines 207-221): one
   call per run, on a module whose caches are empty, against any upstream
   document of the bounded sets below *)

MaxEntries == 3         \* entries in the 'standings' list of a partition document
MaxLeaders == 3         \* leaders listed under a category of the leaders document

NFC_EAST == <<"DAL", "PHI", "NYG", "WAS">>
LEADING_ATHLETES == <<"mahomes", "allen", "hurts", "burrow">>

\* entry['records'][0]['stats'] of a team with w wins in g games
Stats(w, g) ==
    [n \in REQUIRED_STATS |->
        CASE n = "wins" -> w
          [] n = "losses" -> g - w
          [] n = "ties" -> 0
          [] n = "winPercent" -> (w * 1000) \div g
          [] n = "pointsFor" -> 20 * w
          [] n = "pointsAgainst" -> 20 * (g - w)
          [] n = "pointDifferential" -> 20 * w - 20 * (g - w)]

Without(stats, n) == [m \in DOMAIN stats \ {n} |-> stats[m]]

\* the entries of a team that fetch_standings completes
GoodEntries(id) ==
    {[team |-> id, records |-> 3, stats |-> Stats(w, g),
      team_fetch |-> "ok", group_fetch |-> "ok"] : w \in {8, 10}, g \in {12, 15}}

\* the entries of a team that it cannot complete: a reference fetch answers
\* non-200 or raises, a statistic is absent, records[1] and records[2] are absent
FlawedEntries(id) ==
    LET e == [team |-> id, records |-> 3, stats |-> Stats(10, 12),
              team_fetch |-> "ok", group_fetch |-> "ok"]
    IN  {[e EXCEPT !.team_fetch = "status"], [e EXCEPT !.team_fetch = "error"],
         [e EXCEPT !.group_fetch = "status"], [e EXCEPT !.group_fetch = "error"],
         [e EXCEPT !.records = 1]}
        \cup {[e EXCEPT !.stats = Without(e.stats, n)] :
                 n \in {"wins", "losses", "ties", "winPercent"}}

\* the 'standings' lists of n entries, of which at most `flawed` are flawed
RECURSIVE EntryLists(_, _)
EntryLists(n, flawed) ==
    IF n = 0 THEN {<<>>}
    ELSE {Append(s, e) : s \in EntryLists(n - 1, flawed), e \in GoodEntries(NFC_EAST[n])}
         \cup (IF flawed = 0 THEN {}
               ELSE {Append(s, e) : s \in EntryLists(n - 1, flawed - 1),
                                    e \in FlawedEntries(NFC_EAST[n])})

\* a partition fetch that fails entirely: FailedStandings, a body that is not
\* JSON, and a list whose first entry has no records at all
FailedPartitions ==
    FailedStandings
    \cup {[fault |-> "Error", status |-> 200, has_standings |-> FALSE, standings |-> <<>>],
          [fault |-> "none", status |-> 200, has_standings |-> TRUE,
           standings |-> <<[team |-> "DAL", records |-> 0, stats |-> Stats(10, 12),
                            team_fetch |-> "ok", group_fetch |-> "ok"]>>]}

NFCDocuments ==
    {[fault |-> "none", status |-> 200, has_standings |-> TRUE, standings |-> s] :
        s \in UNION {EntryLists(n, 1) : n \in 0..MaxEntries}}
    \cup FailedPartitions

AFCDocuments == {GoodStandings("AFC", DefaultYear, 0)} \cup FailedPartitions

\* what the try body of fetch_standings raises, lines 19-122: the fault of the
\* request, KeyError on data['standings'], IndexError on entry['records'][0]
RaisedIn(response) ==
    IF response.fault # "none" THEN response.fault
    ELSE IF response.status # 200 THEN "none"
    ELSE IF ~response.has_standings THEN "KeyError"
    ELSE IF EntriesRaise(response.standings) THEN "IndexError"
    ELSE "none"

\* the except clauses of fetch_standings without the last of them
Handled_NoCatchAll(exception) == exception \in {"ClientError", "Timeout"}

\* lines 123-131: ClientError, TimeoutError, and Exception for all the others
Handled(exception) == TRUE

\* the call raises to its caller
Propagates(response) ==
    RaisedIn(response) # "none" /\ ~Handled(RaisedIn(response))


\* the leaders that fetch_stats_leaders can meet at a position of a category
LeaderVariants(id) ==
    LET l == Leader(id, 3900)
    IN  {l, Leader(id, 4000),
         [l EXCEPT !.athlete = None],
         [l EXCEPT !.athlete_fetch = "status"], [l EXCEPT !.athlete_fetch = "error"],
         [l EXCEPT !.team_fetch = "none"],
         [l EXCEPT !.team_fetch = "status"], [l EXCEPT !.team_fetch = "error"]}

RECURSIVE LeaderLists(_)
LeaderLists(n) ==
    IF n = 0 THEN {<<>>}
    ELSE {Append(s, l) : s \in LeaderLists(n - 1),
                         l \in LeaderVariants(LEADING_ATHLETES[n])}

LeadersDocuments ==
    {[fault |-> "none", status |-> 200,
      categories |-> <<[name |-> "passingYards", leaders |-> l]>>] :
        l \in UNION {LeaderLists(n) : n \in 0..MaxLeaders}}
    \cup {NoLeaders} \cup FailedLeaders

PageSizes == {IntArg(n) : n \in 0..MaxLeaders}

\* a grouping as update_standings returns it, with one team in each division
\* of `present`, a set of <<conference, suffix>> pairs
LeagueGrouping(present) ==
    [d \in {DivisionName(p[1], p[2]) : p \in present} |->
        <<[conference |-> (CHOOSE p \in present : DivisionName(p[1], p[2]) = d)[1],
           division |-> d, name |-> d, abbreviation |-> d,
           wins |-> 10, losses |-> 2, ties |-> 0, winPercent |-> 833]>>]

LeagueGroupings ==
    {LeagueGrouping(present) :
        present \in SUBSET (Range(CONFERENCE_ORDER) \X
                              {"North", "South", "East", "West"})}

Calls ==
    {[fn |-> "fetch_standings", response |-> r, conference_name |-> "NFC"] :
        r \in NFCDocuments}
    \cup {[fn |-> "update_standings", year |-> DefaultYear, nfc |-> a, afc |-> b] :
             a \in NFCDocuments, b \in AFCDocuments}
    \cup {[fn |-> "fetch_stats_leaders", year |-> DefaultYear, response |-> r,
           no_of_players |-> n] : r \in LeadersDocuments, n \in PageSizes}
    \cup {[fn |-> "update_standings_ui", standings_data |-> g] : g \in LeagueGroupings}

Returned(value) == [done |-> TRUE, raised |-> FALSE, value |-> value]
Raised == [done |-> TRUE, raised |-> TRUE, value |-> <<>>]

application == <<program, now, events, tasks, after_queue, snapshots, last, widgets,
                 selection, status_var, logo_frame, initial_pending, timer_due, export>>

\* fetch_standings(url, conference_name), lines 15-132
call_fetch_standings ==
    /\ called.fn = "fetch_standings"
    /\ ~result.done
    /\ result' = IF Propagates(called.response) THEN Raised
                 ELSE Returned(fetch_standings(called.response,
                                               called.conference_name))
    /\ UNCHANGED <<called, caches, application>>

\* update_standings(year), lines 135-191
call_update_standings ==
    /\ called.fn = "update_standings"
    /\ ~result.done
    /\ LET cache_key == StandingsKey(ResolveYear(called.year))
           current_time == now
           all_standings == fetch_standings(called.nfc, "NFC")
                                \o fetch_standings(called.afc, "AFC")
           divisions == GroupByDivision(all_standings)
       IN  IF IsFresh(standings_cache, standings_cache_expiry, cache_key, current_time)
           THEN /\ result' = Returned(standings_cache[cache_key])
                /\ UNCHANGED <<standings_cache, standings_cache_expiry>>
           ELSE IF Propagates(called.nfc) \/ Propagates(called.afc)
           THEN /\ result' = Returned(Get(standings_cache, cache_key, NoDict))
                /\ UNCHANGED <<standings_cache, standings_cache_expiry>>
           ELSE /\ result' = Returned(divisions)
                /\ standings_cache' = StoreValue(standings_cache, cache_key, divisions)
                /\ standings_cache_expiry' =
                       StoreExpiry(standings_cache_expiry, cache_key, current_time,
                                   STANDINGS_CACHE_DURATION)
    /\ UNCHANGED <<called, leaders_cache, leaders_cache_expiry, application>>

\* fetch_stats_leaders(year, no_of_players), lines 25-133
call_fetch_stats_leaders ==
    /\ called.fn = "fetch_stats_leaders"
    /\ ~result.done
    /\ LET cache_key == LeadersKey(ResolveYear(called.year), called.no_of_players)
           current_time == now
           outcome == LeadersOutcome(called.response, called.no_of_players)
           leaders == LeadersDict(called.response.categories, called.no_of_players)
       IN  IF IsFresh(leaders_cache, leaders_cache_expiry, cache_key, current_time)
           THEN /\ result' = Returned(leaders_cache[cache_key])
                /\ UNCHANGED <<leaders_cache, leaders_cache_expiry>>
           ELSE IF outcome = "stored"
           THEN /\ result' = Returned(leaders)
                /\ leaders_cache' = StoreValue(leaders_cache, cache_key, leaders)
                /\ leaders_cache_expiry' =
                       StoreExpiry(leaders_cache_expiry, cache_key, current_time,
                                   LEADERS_CACHE_DURATION)
           ELSE /\ result' = Returned(IF outcome = "empty" THEN NoDict
                                      ELSE Get(leaders_cache, cache_key, NoDict))
                /\ UNCHANGED <<leaders_cache, leaders_cache_expiry>>
    /\ UNCHANGED <<called, standings_cache, standings_cache_expiry, application>>

\* NFLStatsApp.update_standings_ui(standings_data), lines 731-799: the result
\* is the content of standings_tree
call_update_standings_ui ==
    /\ called.fn = "update_standings_ui"
    /\ ~result.done
    /\ result' = Returned(update_standings_ui(called.standings_data))
    /\ UNCHANGED <<called, caches, application>>

InitRecords ==
    /\ program = "module"
    /\ Constructed
    /\ called \in Calls
    /\ result = NoResult

NextRecords ==
    \/ call_fetch_standings
    \/ call_update_standings
    \/ call_fetch_stats_leaders
    \/ call_update_standings_ui

SpecRecords == InitRecords /\ [][NextRecords]_vars

-----------------------------------------------------------------------------
(* The cached operations: properties of the call that completed last *)

CachedKinds == {"standings", "player_stats", "gui_leaders"}

\* the call found a fresh entry for its key when it started
FoundFresh(call) == call.seen.has /\ call.current_time < call.seen.expiry

\* the call went to the network and its fetch failed: every partition of
\* update_standings returned [], so that the grouping built from them is empty;
\* fetch_stats_leaders left by a non-200 status or by one of its handlers
FetchFailed(call) ==
    /\ ~call.hit
    /\ \/ call.kind = "standings" /\ call.returned = NoDict
       \/ call.kind \in {"player_stats", "gui_leaders"}
            /\ call.outcome \in {"empty", "fallback"}

\* the entry of the call's key as the cache holds it now
EntryNow(call) ==
    IF call.kind = "standings"
    THEN Entry_(standings_cache, standings_cache_expiry, call.key)
    ELSE Entry_(leaders_cache, leaders_cache_expiry, call.key)

DurationOf(call) ==
    IF call.kind = "standings" THEN STANDINGS_CACHE_DURATION
    ELSE LEADERS_CACHE_DURATION

\* C1: a call of update_standings or fetch_stats_leaders that starts before the
\* expiry instant stored for its key returns exactly the stored value and makes
\* no network request.
C1_FreshHit ==
    (last.kind \in CachedKinds /\ FoundFresh(last))
        => /\ last.returned = last.seen.value
           /\ \A x \in DOMAIN last.requests : last.requests[x] = 0

\* a standings call answered from the cache with a grouping that has teams in it
C1_Witness ==
    /\ last.kind = "standings"
    /\ FoundFresh(last)
    /\ last.returned # NoDict
    /\ last.current_time > 0
    /\ \A x \in DOMAIN last.requests : last.requests[x] = 0

\* C2: update_standings called with an entry that is there but expired, and whose
\* partitions all fail, returns the prior grouping.
C2_StaleStandingsReturned ==
    (last.kind = "standings" /\ FetchFailed(last) /\ last.seen.has
        /\ ~FoundFresh(last))
        => last.returned = last.prior.value

\* C3: fetch_stats_leaders called with an entry that is there but expired, and
\* whose primary request fails in any way, returns the prior value.
C3_StaleLeadersReturned ==
    (last.kind \in {"player_stats", "gui_leaders"} /\ FetchFailed(last)
        /\ last.seen.has /\ ~FoundFresh(last))
        => last.returned = last.prior.value

\* C4: after a call whose fetch failed, the entry of its key has the value and the
\* expiry instant it had before the call.
C4_FailedRefreshKeepsEntry ==
    (last.kind \in CachedKinds /\ FetchFailed(last)) => EntryNow(last) = last.prior

\* C5: a call that finds its key absent or expired makes each of its requests
\* exactly once (one per conference partition, one primary leaders request),
\* whether or not another call for the same key is under way.
C5_OneFetchPerCall ==
    /\ (last.kind \in CachedKinds /\ ~FoundFresh(last))
          => /\ DOMAIN last.requests = Slots(last.kind)
             /\ \A x \in DOMAIN last.requests : last.requests[x] = 1
    /\ \A i \in 1..Len(tasks) : \A x \in DOMAIN tasks[i].fetch :
          tasks[i].fetch[x].requests =
              (IF tasks[i].fetch[x].phase = "pending" THEN 0 ELSE 1)

\* a call that ran while another call for the same key was under way, and that
\* made its own requests all the same
C5_Witness ==
    /\ last.kind = "standings"
    /\ last.overlapped
    /\ ~FoundFresh(last)
    /\ \A x \in DOMAIN last.requests : last.requests[x] = 1

\* C6: every call that fetched stores what it fetched, whatever the entry holds
\* by then: the entry is the last writer's, with the expiry of its start time.
C6_LastWriterWins ==
    (last.kind \in CachedKinds /\ last.outcome = "stored")
        => EntryNow(last) = [has |-> TRUE,
                             expiry |-> last.current_time + DurationOf(last),
                             value |-> last.returned]

\* R1 was submitted before R2, R2 wrote the entry first, and R1 has now replaced
\* R2's newer data with the data it fetched earlier
C6_Witness ==
    /\ last.kind = "standings"
    /\ last.outcome = "stored"
    /\ last.overtaken
    /\ last.prior.has
    /\ last.prior.expiry > last.current_time + DurationOf(last)
    /\ last.prior.value # NoDict
    /\ last.returned # NoDict
    /\ last.prior.value # last.returned

\* C7: the snapshots are assigned on the presentation context only.
C7_SnapshotsWrittenOnPresentation ==
    /\ writer.standings # "background"
    /\ writer.player_stats # "background"

-----------------------------------------------------------------------------
(* The bridge between the two loops *)

C10_TimerSubmitsRefresh ==
    [][timer_due' # timer_due =>
          /\ Len(tasks') = Len(tasks) + 1
          /\ tasks'[Len(tasks')].kind =
                 (IF current_tab = 0 THEN "standings" ELSE "player_stats")]_vars

-----------------------------------------------------------------------------
(* The records built by a direct call *)

\* the teams of the two partition documents in the order they were fetched
FetchOrder ==
    [i \in 1..Len(called.nfc.standings) |-> called.nfc.standings[i].team]
        \o [i \in 1..Len(called.afc.standings) |-> called.afc.standings[i].team]

Fetched(record) ==
    CHOOSE k \in 1..Len(FetchOrder) :
        TeamData(FetchOrder[k]).abbreviation = record.abbreviation

UpdateStandingsReturned == called.fn = "update_standings" /\ result.done

\* C11: within every division list returned by update_standings the teams are in
\* descending order of wins, teams with the same wins are in descending order of
\* win percentage, and teams equal on both keep the order they were fetched in
C11_DivisionsSorted ==
    UpdateStandingsReturned =>
        \A d \in DOMAIN result.value :
            LET teams == result.value[d]
            IN  \A i, j \in 1..Len(teams) :
                    i < j =>
                        /\ teams[i].wins >= teams[j].wins
                        /\ teams[i].wins = teams[j].wins =>
                               teams[i].winPercent >= teams[j].winPercent
                        /\ (/\ teams[i].wins = teams[j].wins
                            /\ teams[i].winPercent = teams[j].winPercent) =>
                               Fetched(teams[i]) < Fetched(teams[j])

\* a division of three teams is returned: the team fetched last leads it with 10
\* wins, ahead of two 8-win teams that are equal on both keys
C11_Witness ==
    /\ UpdateStandingsReturned
    /\ \E d \in DOMAIN result.value :
           LET teams == result.value[d]
           IN  /\ Len(teams) = 3
               /\ Fetched(teams[1]) = 3
               /\ teams[1].wins = 10 /\ teams[1].winPercent = 833
               /\ teams[2].wins = 8 /\ teams[2].winPercent = 666
               /\ teams[3].wins = 8 /\ teams[3].winPercent = 666

\* every record of a grouping, whatever its division
GroupingRecords(grouping) == UNION {Range(grouping[d]) : d \in DOMAIN grouping}

GroupingSize(grouping) ==
    LET RECURSIVE Sum(_)
        Sum(ds) == IF ds = {} THEN 0
                   ELSE LET d == CHOOSE x \in ds : TRUE
                        IN  Len(grouping[d]) + Sum(ds \ {d})
    IN  Sum(DOMAIN grouping)

\* the records of a partition that did not fail entirely
Succeeded(response, conference_name) ==
    IF response \in FailedPartitions THEN <<>>
    ELSE fetch_standings(response, conference_name)

\* C12: a partition whose fetch fails entirely (non-200, connection error,
\* timeout, malformed document) makes fetch_standings return no record without
\* raising, and update_standings returns a grouping holding exactly the records
\* of the partitions that succeeded
C12_FailedPartitionContributesNothing ==
    /\ (/\ called.fn = "fetch_standings"
        /\ result.done
        /\ called.response \in FailedPartitions) =>
           ~result.raised /\ result.value = <<>>
    /\ UpdateStandingsReturned =>
           LET nfc == Succeeded(called.nfc, "NFC")
               afc == Succeeded(called.afc, "AFC")
           IN  /\ ~result.raised
               /\ GroupingRecords(result.value) = Range(nfc) \cup Range(afc)
               /\ GroupingSize(result.value) = Len(nfc) + Len(afc)

\* the NFC partition succeeded with three teams, the AFC partition failed
\* entirely, and the grouping returned holds three records, all of the NFC
C12_Witness ==
    /\ UpdateStandingsReturned
    /\ called.afc \in FailedPartitions
    /\ called.nfc \notin FailedPartitions
    /\ Len(called.nfc.standings) = 3
    /\ GroupingSize(result.value) = 3
    /\ \A r \in GroupingRecords(result.value) : r.conference = "NFC"

FetchStandingsReturned == called.fn = "fetch_standings" /\ result.done

\* an entry whose statistics lack wins, losses, ties or winPercent
LacksStat(entry) ==
    ~({"wins", "losses", "ties", "winPercent"} \subseteq DOMAIN entry.stats)

Emitted(entry) ==
    \E k \in 1..Len(result.value) :
        result.value[k].abbreviation = TeamData(entry.team).abbreviation

\* C13: when an entry of a partition lacks wins, losses, ties or winPercent,
\* fetch_standings does not raise, emits no record for that entry, emits the
\* record of every other team of the partition, and so returns one record fewer
C13_EntryWithoutStatExcluded ==
    (/\ FetchStandingsReturned
     /\ called.response \notin FailedPartitions
     /\ \E i \in 1..Len(called.response.standings) :
            LacksStat(called.response.standings[i])) =>
        LET entries == called.response.standings
        IN  /\ ~result.raised
            /\ \A i \in 1..Len(entries) :
                   IF LacksStat(entries[i]) THEN ~Emitted(entries[i])
                   ELSE Emitted(entries[i])
            /\ Len(result.value) = Len(entries) - 1

\* the second of three entries has no wins statistic: the first and the third
\* team are returned
C13_Witness ==
    /\ FetchStandingsReturned
    /\ Len(called.response.standings) = 3
    /\ "wins" \notin DOMAIN called.response.standings[2].stats
    /\ Len(result.value) = 2
    /\ result.value[1].abbreviation = "DAL"
    /\ result.value[2].abbreviation = "NYG"

\* fetch_stats_leaders returned the dict built from a 200 document
LeadersBuilt ==
    /\ called.fn = "fetch_stats_leaders"
    /\ result.done
    /\ called.response.fault = "none"
    /\ called.response.status = 200

\* the leaders of the upstream category within the page size
Upstream(name) ==
    LET listed == {k \in 1..Len(called.response.categories) :
                      called.response.categories[k].name = name}
        leaders == called.response.categories[CHOOSE k \in listed : TRUE].leaders
    IN  SubSeq(leaders, 1, IF Len(leaders) <= called.no_of_players.n
                           THEN Len(leaders) ELSE called.no_of_players.n)

\* C14: a leader within the page size whose athlete fetch succeeds and whose
\* team-reference fetch answers non-200 or raises has a record in the list of its
\* category, with team "Free Agent" and team_abbr "FA"
C14_TeamFetchFailureKeepsLeader ==
    LeadersBuilt =>
        \A name \in DOMAIN result.value :
            \A k \in 1..Len(Upstream(name)) :
                LET leader == Upstream(name)[k]
                IN  (/\ leader.athlete # None
                     /\ leader.athlete_fetch = "ok"
                     /\ leader.team_fetch \in {"status", "error"}) =>
                        \E r \in Range(result.value[name]) :
                            /\ r.athlete_id = AthleteData(leader.athlete).id
                            /\ r.team = "Free Agent"
                            /\ r.team_abbr = "FA"

\* the second leader's team fetch raised: the list has the record of the first
\* with its team and the record of the second as a free agent
C14_Witness ==
    /\ LeadersBuilt
    /\ "passingYards" \in DOMAIN result.value
    /\ Len(Upstream("passingYards")) >= 2
    /\ Upstream("passingYards")[2].athlete_fetch = "ok"
    /\ Upstream("passingYards")[2].team_fetch = "error"
    /\ Len(result.value["passingYards"]) >= 2
    /\ result.value["passingYards"][1].team = "Kansas City Chiefs"
    /\ result.value["passingYards"][2].name = "Josh Allen"
    /\ result.value["passingYards"][2].team = "Free Agent"
    /\ result.value["passingYards"][2].team_abbr = "FA"

\* C15: in every category list returned by fetch_stats_leaders the ranks of the
\* k records are 1, 2, ..., k, also when a leader was skipped because its athlete
\* fetch failed
C15_RanksContiguous ==
    LeadersBuilt =>
        \A name \in DOMAIN result.value :
            \A k \in 1..Len(result.value[name]) : result.value[name][k].rank = k

\* the position in the upstream list of the leader a record was built from
UpstreamPosition(name, record) ==
    CHOOSE k \in 1..Len(Upstream(name)) :
        /\ Upstream(name)[k].athlete # None
        /\ AthleteData(Upstream(name)[k].athlete).id = record.athlete_id

FromUpstream(name, record) ==
    \E k \in 1..Len(Upstream(name)) :
        /\ Upstream(name)[k].athlete # None
        /\ AthleteData(Upstream(name)[k].athlete).id = record.athlete_id

\* C16: for a page size N, every category list returned by fetch_stats_leaders
\* has at most N records, each built from one of the first N leaders of the
\* upstream list of the category
C16_AtMostPageSize ==
    LeadersBuilt =>
        \A name \in DOMAIN result.value :
            /\ Len(result.value[name]) <= called.no_of_players.n
            /\ \A r \in Range(result.value[name]) : FromUpstream(name, r)

\* the page size is 2, the category lists three leaders that can all be
\* completed, and the list returned has the first two
C16_Witness ==
    /\ LeadersBuilt
    /\ called.no_of_players.n = 2
    /\ Len(called.response.categories) = 1
    /\ Len(called.response.categories[1].leaders) = 3
    /\ \A k \in 1..3 :
           /\ called.response.categories[1].leaders[k].athlete # None
           /\ called.response.categories[1].leaders[k].athlete_fetch = "ok"
    /\ Len(result.value["passingYards"]) = 2
    /\ result.value["passingYards"][1].name = "Patrick Mahomes"
    /\ result.value["passingYards"][2].name = "Josh Allen"

\* C17: the rank of a record is the position of its leader in the upstream
\* list, and the records of a category are in the order of their leaders in
\* that list, whatever their values are
C17_UpstreamOrderKept ==
    LeadersBuilt =>
        \A name \in DOMAIN result.value :
            LET records == result.value[name]
            IN  /\ \A i \in 1..Len(records) :
                       records[i].rank = UpstreamPosition(name, records[i])
                /\ \A i, j \in 1..Len(records) :
                       i < j => UpstreamPosition(name, records[i])
                                    < UpstreamPosition(name, records[j])

\* a list is returned whose second record has a greater value than its first
C17_Witness ==
    /\ LeadersBuilt
    /\ "passingYards" \in DOMAIN result.value
    /\ Len(result.value["passingYards"]) >= 2
    /\ result.value["passingYards"][1].value < result.value["passingYards"][2].value
    /\ UpstreamPosition("passingYards", result.value["passingYards"][1]) = 1

-----------------------------------------------------------------------------
(* The order of the delivery closures *)

ViewUpdates == {"update_standings_ui", "update_player_stats_category_ui"}
LastUpdated == {"standings_updated_var", "player_stats_updated_var"}

\* the closures of one completed refresh: view, status message, last-updated
RefreshTriple(closures) ==
    /\ Len(closures) = 3
    /\ closures[1].op \in ViewUpdates
    /\ closures[2].op = "status_var"
    /\ closures[3].op \in LastUpdated

\* the main loop ran the closure c in this step
Ran(c) ==
    /\ c.op = "update_standings_ui" => standings_tree' = update_standings_ui(c.data)
    /\ c.op = "status_var" => status_var' = c.about
    /\ c.op \in LastUpdated =>
           c.at \in {standings_updated_var', player_stats_updated_var'}
    /\ c.op # "update_standings_ui" => standings_tree' = standings_tree
    /\ c.op # "status_var" => status_var' = status_var
    /\ c.op # "standings_updated_var" => standings_updated_var' = standings_updated_var
    /\ c.op # "player_stats_updated_var" =>
           player_stats_updated_var' = player_stats_updated_var

\* C18: delivery closures run in the order they were scheduled: a completing
\* refresh puts its closures behind all the closures that wait, as view update,
\* status message, last-updated; and the closure the main loop runs is always the
\* one that has waited longest
C18_ClosuresRunInScheduledOrder ==
    [][/\ Len(after_queue') > Len(after_queue) =>
              /\ SubSeq(after_queue', 1, Len(after_queue)) = after_queue
              /\ LET closures == SubSeq(after_queue', Len(after_queue) + 1,
                                        Len(after_queue'))
                 IN  RefreshTriple(closures)
       /\ Len(after_queue') < Len(after_queue) =>
              /\ after_queue' = Tail(after_queue)
              /\ Ran(Head(after_queue))
       /\ Len(after_queue') = Len(after_queue) =>
              /\ after_queue' = after_queue
              /\ standings_tree' = standings_tree
              /\ stat_trees' = stat_trees]_vars

\* the closures of two completed refreshes wait, those of the one that completed
\* first in front; the view update of the first has run and its status message
\* is next
C18_Witness ==
    /\ Len(after_queue) = 5
    /\ after_queue[1].op = "status_var"
    /\ after_queue[2].op \in LastUpdated
    /\ RefreshTriple(SubSeq(after_queue, 3, 5))
    /\ standings_tree # <<>>

-----------------------------------------------------------------------------
(* The handlers of the presentation context *)

\* a request of the coroutine is on the network
OnNetwork(t) ==
    /\ t.pc = "fetching"
    /\ \E x \in DOMAIN t.fetch : t.fetch[x].phase # "done"

\* C19: no handler of the presentation context waits for a network fetch: while
\* a request of a coroutine is on the network, the handler that started the
\* coroutine has returned
C19_HandlersReturnBeforeFetch ==
    \A i \in 1..Len(tasks) : OnNetwork(tasks[i]) => ~HandlerWaits(tasks[i])

-----------------------------------------------------------------------------
(* The filename future of an asynchronous export *)

-----------------------------------------------------------------------------
(* The order of the standings view *)

StandingsShown == called.fn = "update_standings_ui" /\ result.done

ConferencePlace(text) == IF text = "AFC" THEN 1 ELSE 2

DivisionPlace(text) ==
    CASE text \in {"AFC North", "NFC North"} -> 1
      [] text \in {"AFC South", "NFC South"} -> 2
      [] text \in {"AFC East", "NFC East"} -> 3
      [] text \in {"AFC West", "NFC West"} -> 4

\* the data have a team of the conference, in the division
HasTeam(standings_data, conference, division) ==
    /\ division \in DOMAIN standings_data
    /\ \E i \in 1..Len(standings_data[division]) :
           standings_data[division][i].conference = conference

\* C21: the standings view lists the AFC before the NFC and, inside a
\* conference, the divisions in the order North, South, East, West; a conference
\* or a division is listed only if the data have a team of it
C21_FixedDisplayOrder ==
    StandingsShown =>
        LET shown == result.value
        IN  /\ \A k, l \in 1..Len(shown) :
                   k < l => ConferencePlace(shown[k].text) < ConferencePlace(shown[l].text)
            /\ \A k \in 1..Len(shown) :
                   /\ \E d \in DOMAIN called.standings_data :
                          HasTeam(called.standings_data, shown[k].text, d)
                   /\ \A i, j \in 1..Len(shown[k].divisions) :
                          i < j => DivisionPlace(shown[k].divisions[i].text)
                                       < DivisionPlace(shown[k].divisions[j].text)
                   /\ \A i \in 1..Len(shown[k].divisions) :
                          HasTeam(called.standings_data, shown[k].text,
                                  shown[k].divisions[i].text)

\* the data have the AFC West, the AFC North and three NFC divisions: the view
\* lists AFC (North, West), then NFC (North, South, West)
C21_Witness ==
    /\ StandingsShown
    /\ DOMAIN called.standings_data =
           {"AFC West", "AFC North", "NFC West", "NFC South", "NFC North"}
    /\ Len(result.value) = 2
    /\ result.value[1].text = "AFC"
    /\ [i \in 1..Len(result.value[1].divisions) |-> result.value[1].divisions[i].text]
           = <<"AFC North", "AFC West">>
    /\ result.value[2].text = "NFC"
    /\ [i \in 1..Len(result.value[2].divisions) |-> result.value[2].divisions[i].text]
           = <<"NFC North", "NFC South", "NFC West">>

-----------------------------------------------------------------------------
(* The player-stats refreshes of app.py *)

\* no response of the upstream lists the category
AbsentUpstream(category) ==
    \A y \in Years, wk \in 0..MaxTicks :
        \A r \in LeadersResponses(y, wk) :
            \A k \in 1..Len(r.categories) : r.categories[k].name # category

\* C22: a leaders refresh for a category that the upstream response does not
\* list schedules its three closures, delivers the empty list to the view of the
\* category and reports success, not an error
C22_AbsentCategoryDeliversEmpty ==
    /\ (last.kind = "player_stats" /\ AbsentUpstream(last.category)) =>
           last.scheduled = 3
    /\ \A k \in 1..Len(after_queue) :
           LET c == after_queue[k]
           IN  /\ (/\ c.op = "update_player_stats_category_ui"
                   /\ AbsentUpstream(c.about)) => c.data = <<>>
               /\ (c.op = "status_var" /\ c.about.about # "") =>
                      c.about.msg = "data updated successfully"
    /\ \A c \in DOMAIN stat_trees : AbsentUpstream(c) => stat_trees[c] = <<>>

\* the refresh of Rushing Yards, which the upstream does not list, has completed
\* after the upstream answered 200: its empty list is next to be shown, followed
\* by the success message
C22_Witness ==
    /\ last.kind = "player_stats"
    /\ last.category = "rushingYards"
    /\ AbsentUpstream("rushingYards")
    /\ last.outcome \in {"stored", "fallback"}
    /\ Len(after_queue) = 3
    /\ after_queue[1].op = "update_player_stats_category_ui"
    /\ after_queue[1].about = "rushingYards"
    /\ after_queue[1].data = <<>>
    /\ after_queue[2].about = Status("data updated successfully", "Rushing Yards")

-----------------------------------------------------------------------------
(* The life of a cache entry *)

\* the step leaves the entries of the cache alone, but for the key of a call
\* that completes in it after a fetch that succeeded
KeptUntilSuccess(cache, cache_after, kinds, completed) ==
    \A key \in DOMAIN cache :
        /\ key \in DOMAIN cache_after
        /\ cache_after[key] # cache[key] =>
               /\ completed.kind \in kinds
               /\ completed.key = key
               /\ ~FetchFailed(completed)

\* C23: a stored cache entry is never removed, and its value changes only in a
\* step in which a later fetch for its key succeeds and overwrites it
C23_EntryKeptUntilOverwritten ==
    [][/\ KeptUntilSuccess(standings_cache, standings_cache', {"standings"}, last')
       /\ KeptUntilSuccess(leaders_cache, leaders_cache',
                           {"player_stats", "gui_leaders"}, last')]_vars

-----------------------------------------------------------------------------
(* The snapshots after a delivery *)

\* the list that fetch_and_display_player_stats hands to the view
DeliveredList(completed) == Get(completed.returned, completed.category, <<>>)

\* C24: each successful delivery replaces the snapshot by the delivered result:
\* after a standings delivery current_standings is the grouping delivered, and
\* after a player-stats delivery the snapshot of the category is the list
\* delivered to its view
C24_SnapshotIsDeliveredResult ==
    /\ last.kind = "standings" => current_standings = last.returned
    /\ last.kind = "player_stats" =>
           /\ last.category \in DOMAIN current_player_stats.stats
           /\ current_player_stats.stats[last.category] = DeliveredList(last)

-----------------------------------------------------------------------------
(* A refresh of a category whose leaders the upstream lists *)

\* the leaders the document lists for the category, when it is a 200 document
\* and every reference fetch of every leader of the category succeeds
ListedLeaders(response, category) ==
    IF response.fault # "none" \/ response.status # 200 THEN <<>>
    ELSE LET listed == {k \in 1..Len(response.categories) :
                            /\ response.categories[k].name = category
                            /\ \A j \in 1..Len(response.categories[k].leaders) :
                                  LET l == response.categories[k].leaders[j]
                                  IN  /\ l.athlete # None
                                      /\ l.athlete_fetch = "ok"
                                      /\ l.team_fetch = "ok"}
         IN  IF listed = {} THEN <<>>
             ELSE response.categories[CHOOSE k \in listed : TRUE].leaders

\* the refresh tasks[i] of refresh_player_stats completes with one record per
\* listed leader handed to the view and stored as the snapshot of the category
DeliversListedLeaders(i) ==
    LET t == tasks[i]
        listed == ListedLeaders(t.fetch["leaders"].value, t.category)
        shown == after_queue'[Len(after_queue) + 1]
    IN  (/\ t.kind = "player_stats"
         /\ listed # <<>>
         /\ Len(listed) <= DEFAULT_NO_OF_PLAYERS) =>
            /\ shown.op = "update_player_stats_category_ui"
            /\ shown.about = t.category
            /\ Len(shown.data) = Len(listed)
            /\ t.category \in DOMAIN current_player_stats'.stats
            /\ current_player_stats'.stats[t.category] = shown.data

\* C26: a refresh of category c requested by refresh_player_stats, when the
\* response lists leaders for c and every fetch succeeds, hands the view one
\* record per listed leader and stores that list as the snapshot of c
C26_RefreshDeliversLeaders ==
    [][\A i \in 1..Len(tasks) : CompleteLeaders(i) => DeliversListedLeaders(i)]_vars

-----------------------------------------------------------------------------
(* A record whose primary reference cannot be fetched *)

\* the team or the group reference of the entry answers non-200 or raises
PrimaryFetchFails(entry) ==
    entry.team_fetch \in {"status", "error"} \/ entry.group_fetch \in {"status", "error"}

\* the athlete reference of the leader answers non-200 or raises
AthleteFetchFails(leader) ==
    leader.athlete # None /\ leader.athlete_fetch \in {"status", "error"}

\* the leader has a record in the list of the category
HasRecord(name, leader) ==
    \E r \in Range(result.value[name]) :
        r.athlete_id = AthleteData(leader.athlete).id

\* C25: when the team or group reference of one team, or the athlete reference
\* of one leader, cannot be fetched, only that record is skipped: every other
\* entry of the batch that can be completed is emitted, and neither
\* fetch_standings nor fetch_stats_leaders raises
C25_FailedReferenceSkipsOneRecord ==
    /\ (/\ FetchStandingsReturned
        /\ called.response \notin FailedPartitions
        /\ \E i \in 1..Len(called.response.standings) :
               PrimaryFetchFails(called.response.standings[i])) =>
           LET entries == called.response.standings
               failing == {i \in 1..Len(entries) : PrimaryFetchFails(entries[i])}
           IN  /\ ~result.raised
               /\ \A i \in 1..Len(entries) : Emitted(entries[i]) <=> i \notin failing
               /\ Len(result.value) = Len(entries) - Cardinality(failing)
    /\ LeadersBuilt =>
           /\ ~result.raised
           /\ \A name \in DOMAIN result.value :
                  LET leaders == Upstream(name)
                      kept == {k \in 1..Len(leaders) :
                                  /\ leaders[k].athlete # None
                                  /\ ~AthleteFetchFails(leaders[k])}
                  IN  /\ \A k \in 1..Len(leaders) :
                             leaders[k].athlete # None =>
                                 (HasRecord(name, leaders[k]) <=> k \in kept)
                      /\ Len(result.value[name]) = Cardinality(kept)

\* the athlete reference of the first of three leaders raised: the second and
\* the third leader have their records
C25_Witness ==
    /\ LeadersBuilt
    /\ "passingYards" \in DOMAIN result.value
    /\ Len(Upstream("passingYards")) = 3
    /\ Upstream("passingYards")[1].athlete_fetch = "error"
    /\ Len(result.value["passingYards"]) = 2
    /\ result.value["passingYards"][1].athlete_id = AthleteData("allen").id
    /\ result.value["passingYards"][2].athlete_id = AthleteData("hurts").id

-----------------------------------------------------------------------------
(* app.create_filter, app.validate_data and exporters.JSONDataExporter called
   directly, as tests/test_filters.py, tests/test_validation.py and
   tests/test_exporters.py call them *)

MaxItems == 3           \* items of a list handed to a filter

\* the rows of tests/test_filters.py lines 8-28
FilterItems ==
    {[name |-> "A", team_abbr |-> "XA", wins |-> 10],
     [name |-> "B", team_abbr |-> "YA", wins |-> 8],
     [name |-> "Team1", team_abbr |-> "XA", wins |-> 9]}

\* the criteria of tests/test_filters.py lines 33 and 41
FilterCriteria ==
    {[on |-> "team_abbr", team_abbr |-> a, min_wins |-> 0] : a \in {"XA", "YA", "ZA"}}
    \cup {[on |-> "wins", team_abbr |-> "", min_wins |-> m] : m \in {0, 9, 11}}

filter_criteria(criterion, item) ==
    IF criterion.on = "team_abbr" THEN item.team_abbr = criterion.team_abbr
    ELSE item.wins >= criterion.min_wins

RECURSIVE ListsOf(_, _)
ListsOf(items, n) ==
    IF n = 0 THEN {<<>>}
    ELSE {Append(s, x) : s \in ListsOf(items, n - 1), x \in items}

FilterCalls ==
    {[fn |-> "create_filter", criterion |-> c, data |-> l] :
        c \in FilterCriteria, l \in UNION {ListsOf(FilterItems, n) : n \in 0..MaxItems}}

\* a filter that keeps one copy of each item that passes
RECURSIVE filter_data_Distinct(_, _)
filter_data_Distinct(criterion, data) ==
    IF data = <<>> THEN <<>>
    ELSE LET front == filter_data_Distinct(criterion, SubSeq(data, 1, Len(data) - 1))
             item == data[Len(data)]
         IN  IF filter_criteria(criterion, item) /\ item \notin Range(front)
             THEN Append(front, item) ELSE front

\* app.py line 217: [item for item in data if filter_criteria(item)]
RECURSIVE filter_data(_, _)
filter_data(criterion, data) ==
    IF data = <<>> THEN <<>>
    ELSE LET front == filter_data(criterion, SubSeq(data, 1, Len(data) - 1))
             item == data[Len(data)]
         IN  IF filter_criteria(criterion, item) THEN Append(front, item) ELSE front

\* create_filter(filter_criteria)(data), lines 214-218: the comprehension
\* builds a new list and leaves data as it is
call_create_filter ==
    /\ called.fn = "create_filter"
    /\ ~result.done
    /\ result' = Returned(filter_data(called.criterion, called.data))
    /\ UNCHANGED <<called, caches, application>>

-----------------------------------------------------------------------------
(* app.validate_data *)

MaxRecords == 2         \* records of the list or division that is validated

\* lines 125-127 and 175-178
PLAYER_FIELDS == <<"name", "position", "team", "team_abbr", "value", "rank">>
TEAM_FIELDS ==
    <<"conference", "division", "name", "abbreviation", "wins", "losses", "ties",
      "winPercent">>

\* A record as the validator sees it: each key it has holds None, "" or
\* "value" (anything else)
Filled(fields) == [f \in Range(fields) |-> "value"]

RecordVariants(fields, touched) ==
    {Filled(fields)}
    \cup {Without(Filled(fields), f) : f \in touched}
    \cup {[Filled(fields) EXCEPT ![f] = v] : f \in touched, v \in {None, ""}}

PlayerRecords == RecordVariants(PLAYER_FIELDS, {"name", "rank"})
TeamRecords == RecordVariants(TEAM_FIELDS, {"conference", "division", "winPercent"})

\* the DummyApp of tests/test_validation.py lines 7-29, with one snapshot or
\* attribute changed; a snapshot is the list of its items() in insertion order
DummyApp ==
    [has_player_stats |-> TRUE,
     current_player_stats |-> <<<<"passingYards", <<Filled(PLAYER_FIELDS)>>>>>>,
     has_stats_notebook |-> TRUE,
     current_tab |-> 0,
     has_standings |-> TRUE,
     current_standings |-> <<<<"AFC North", <<Filled(TEAM_FIELDS)>>>>>>]

PlayerSnapshots ==
    {<<>>}
    \cup {<<<<c, l>>>> : c \in {"passingYards", "rushingYards"},
                         l \in UNION {ListsOf(PlayerRecords, n) : n \in 0..MaxRecords}}
    \cup {<<<<"passingYards", <<Filled(PLAYER_FIELDS)>>>>, <<"rushingYards", <<r>>>>>> :
             r \in PlayerRecords}

StandingsSnapshots ==
    {<<>>}
    \cup {<<<<d, l>>>> : d \in {"AFC North", ""},
                         l \in UNION {ListsOf(TeamRecords, n) : n \in 0..MaxRecords}}
    \cup {<<<<"AFC North", <<>>>>, <<"NFC East", <<r>>>>>> : r \in TeamRecords}

Apps ==
    {[DummyApp EXCEPT !.current_player_stats = p] : p \in PlayerSnapshots}
    \cup {[DummyApp EXCEPT !.current_standings = g] : g \in StandingsSnapshots}
    \cup {[DummyApp EXCEPT !.has_player_stats = FALSE],
          [DummyApp EXCEPT !.has_standings = FALSE],
          [DummyApp EXCEPT !.has_stats_notebook = FALSE],
          [DummyApp EXCEPT !.current_tab = 1],
          [DummyApp EXCEPT !.current_tab = Len(STAT_CATEGORIES)]}

FuncNames == {"export_player_stats_to_csv", "export_standings_to_csv", "dummy_export"}

\* what the wrapped coroutine function returns when it is awaited
FuncResults == {"True", "False"}

\* positional: the instance is passed as args[0] (otherwise by keyword or not
\* at all, and args is empty)
ValidateCalls ==
    {[fn |-> "validate_data", func_name |-> f, positional |-> b, app |-> a,
      func_result |-> r] :
        f \in FuncNames, b \in BOOLEAN, a \in Apps, r \in FuncResults}

\* dict.get(key, []) on a snapshot
Items(snapshot, key) ==
    LET at == {k \in 1..Len(snapshot) : snapshot[k][1] = key}
    IN  IF at = {} THEN <<>> ELSE snapshot[CHOOSE k \in at : TRUE][2]

\* lines 129-131 and 180-182: the first required field that the record lacks
\* or holds None or "" in, or None
FirstMissing(record, fields) ==
    LET missing == {i \in 1..Len(fields) :
                       \/ fields[i] \notin DOMAIN record
                       \/ record[fields[i]] \in {None, ""}}
    IN  IF missing = {} THEN None
        ELSE fields[CHOOSE i \in missing : \A j \in missing : i <= j]

\* the first record of the list that fails, as FirstMissing reports it
FirstFailure(records, fields) ==
    LET failing == {k \in 1..Len(records) : FirstMissing(records[k], fields) # None}
    IN  IF failing = {} THEN None
        ELSE FirstMissing(records[CHOOSE k \in failing : \A j \in failing : k <= j],
                          fields)

showerror(message, field) ==
    Closure("showerror", <<>>, Status(message, field), 0)

\* lines 67-144: the dialog scheduled for export_player_stats_to_csv, or none
ValidatePlayerStats(app) ==
    IF ~app.has_player_stats \/ app.current_player_stats = <<>>
    THEN <<showerror("No player stats data to export (validation failed).", "")>>
    ELSE IF ~app.has_stats_notebook
    THEN <<showerror("Internal error: stats_notebook missing (validation failed).", "")>>
    ELSE IF app.current_tab >= Len(STAT_CATEGORIES)
    THEN <<showerror("Please select a stat category (validation failed).", "")>>
    ELSE LET current_category == STAT_CATEGORIES[app.current_tab + 1]
             players == Items(app.current_player_stats, current_category)
         IN  IF players = <<>>
             THEN <<showerror("No data to export for this category (validation failed).",
                              "")>>
             ELSE IF FirstFailure(players, PLAYER_FIELDS) # None
             THEN <<showerror("Player data missing required field",
                              FirstFailure(players, PLAYER_FIELDS))>>
             ELSE <<>>

\* lines 160-165: every team copied with 'division' set to the key it is under
FlatData(standings) ==
    Concat([k \in 1..Len(standings) |->
               [j \in 1..Len(standings[k][2]) |->
                   Put(standings[k][2][j], "division",
                       IF standings[k][1] = "" THEN "" ELSE "value")]])

\* lines 146-193: the dialog scheduled for export_standings_to_csv, or none
ValidateStandings(app) ==
    IF ~app.has_standings \/ app.current_standings = <<>>
    THEN <<showerror("No standings data to export (validation failed).", "")>>
    ELSE IF FlatData(app.current_standings) = <<>>
    THEN <<showerror("No standings data to export (validation failed).", "")>>
    ELSE IF FirstFailure(FlatData(app.current_standings), TEAM_FIELDS) # None
    THEN <<showerror("Team data missing required field",
                     FirstFailure(FlatData(app.current_standings), TEAM_FIELDS))>>
    ELSE <<>>

Blocked(dialogs) == [invoked |-> 0, returned |-> None, dialogs |-> dialogs]
Invoked(func_result) == [invoked |-> 1, returned |-> func_result, dialogs |-> <<>>]

\* a wrapper that runs both validations whatever the name of the function
wrapper_ChecksEveryName(func_name, positional, app, func_result) ==
    IF ~positional THEN Blocked(<<>>)
    ELSE LET dialogs == ValidatePlayerStats(app) \o ValidateStandings(app)
         IN  IF dialogs # <<>> THEN Blocked(dialogs) ELSE Invoked(func_result)

\* lines 58-210: what a call of the wrapper does
wrapper(func_name, positional, app, func_result) ==
    IF ~positional THEN Blocked(<<>>)
    ELSE LET dialogs == CASE func_name = "export_player_stats_to_csv" ->
                                ValidatePlayerStats(app)
                         [] func_name = "export_standings_to_csv" ->
                                ValidateStandings(app)
                         [] OTHER -> <<>>
         IN  IF dialogs # <<>> THEN Blocked(dialogs) ELSE Invoked(func_result)

\* await validate_data(func)(app): the dialogs go to root.after
call_validate_data ==
    /\ called.fn = "validate_data"
    /\ ~result.done
    /\ LET done == wrapper(called.func_name, called.positional, called.app,
                           called.func_result)
       IN  /\ result' = Returned(done)
           /\ after_queue' = after_queue \o done.dialogs
    /\ UNCHANGED <<called, caches, program, now, events, tasks, snapshots, last,
                   widgets, selection, status_var, logo_frame, initial_pending,
                   timer_due, export>>

-----------------------------------------------------------------------------
(* exporters.JSONDataExporter.save, and json.load reading its file back *)

MaxRows == 2            \* records of the list that is saved

\* Python values: None, int, float (in thousandths), str, list, and dict as the
\* list of its items, whose keys are str
PyNone == [t |-> "NoneType"]
PyInt(n) == [t |-> "int", n |-> n]
PyFloat(thousandths) == [t |-> "float", n |-> thousandths]
PyStr(s) == [t |-> "str", s |-> s]
PyList(items) == [t |-> "list", items |-> items]
PyDict(items) == [t |-> "dict", items |-> items]

\* the rows of tests/test_exporters.py lines 15-24, a leader as
\* stats_leaders.py lines 100-108 builds it and a team as standings.py lines
\* 63-116 builds it
ExportRows ==
    {PyDict(<<<<"name", PyStr("Player 1")>>, <<"position", PyStr("QB")>>,
              <<"team", PyStr("TeamA")>>, <<"team_abbr", PyStr("TA")>>,
              <<"value", PyInt(1234)>>, <<"rank", PyInt(1)>>>>),
     PyDict(<<<<"name", PyStr("Player 2")>>, <<"position", PyStr("RB")>>,
              <<"team", PyStr("TeamB")>>, <<"team_abbr", PyStr("TB")>>,
              <<"value", PyInt(567)>>, <<"rank", PyInt(2)>>>>),
     PyDict(<<<<"name", PyStr("Josh Allen")>>, <<"position", PyStr("QB")>>,
              <<"team", PyStr("Free Agent")>>, <<"team_abbr", PyStr("FA")>>,
              <<"value", PyFloat(3900000)>>, <<"rank", PyInt(2)>>,
              <<"athlete_id", PyNone>>>>),
     PyDict(<<<<"conference", PyStr("AFC")>>, <<"division", PyStr("AFC East")>>,
              <<"name", PyStr("Buffalo Bills")>>, <<"wins", PyInt(10)>>,
              <<"winPercent", PyFloat(833)>>, <<"logo", PyNone>>,
              <<"homeRecord", PyStr("6-0")>>,
              <<"address", PyDict(<<<<"city", PyStr("Orchard Park")>>,
                                    <<"state", PyStr("NY")>>>>)>>>>)}

\* a value that is none of these, as set() is: csv writes its str(), json.dump
\* and openpyxl refuse it
PySet == [t |-> "set"]

\* a record with such a value
SetRow == PyDict(<<<<"name", PyStr("Player 3")>>, <<"teams", PySet>>>>)

\* '' and a path into a missing directory cannot be opened for writing
UnwritableNames == {"", "/no/such/dir/NFL_Standings"}
ExportFileNames == {"test.json", ""}

SavedLists == UNION {ListsOf(ExportRows \cup {SetRow}, n) : n \in 0..MaxRows}

SaveCalls ==
    {[fn |-> "JSONDataExporter.save", data |-> l, filename |-> f] :
        l \in SavedLists, f \in ExportFileNames}

\* the calls of the two exporters that write a table
TableCalls ==
    {[fn |-> fn, data |-> l, filename |-> f] :
        fn \in {"CSVDataExporter.save", "ExcelDataExporter.save"},
        l \in SavedLists, f \in ExportFileNames}

\* the export thread started by export_standings_to_file_sync (lines 1669-1700)
\* with the flattened standings and the name chosen in the dialog, never ''
ExportThreadCalls ==
    {[fn |-> "do_export_standings", filetype |-> ft, data |-> l, filename |-> f] :
        ft \in {"csv", "json", "xlsx"},
        l \in UNION {ListsOf(ExportRows, n) : n \in 1..MaxRows},
        f \in {"NFL_Standings", "/no/such/dir/NFL_Standings"}}

\* The text of a JSON document as the sequence of its lexemes; a number is
\* written with a decimal point exactly when it is a float
Lexeme(k) == [k |-> k]
StringLexeme(s) == [k |-> "string", s |-> s]
NumberLexeme(n, point) == [k |-> "number", n |-> n, point |-> point]

\* an encoder that writes None the way str() does
Scalar_NoneAsStr(value) ==
    CASE value.t = "NoneType" -> StringLexeme("None")
      [] value.t = "int" -> NumberLexeme(value.n, FALSE)
      [] value.t = "float" -> NumberLexeme(value.n, TRUE)
      [] value.t = "str" -> StringLexeme(value.s)

\* json.dump of None, an int, a float, a str
Scalar(value) ==
    CASE value.t = "NoneType" -> Lexeme("null")
      [] value.t = "int" -> NumberLexeme(value.n, FALSE)
      [] value.t = "float" -> NumberLexeme(value.n, TRUE)
      [] value.t = "str" -> StringLexeme(value.s)

\* the texts joined by commas
RECURSIVE Joined(_)
Joined(texts) ==
    IF texts = <<>> THEN <<>>
    ELSE IF Len(texts) = 1 THEN texts[1]
    ELSE texts[1] \o <<Lexeme(",")>> \o Joined(Tail(texts))

\* line 43: json.dump(data, file, ensure_ascii=False, indent=2)
RECURSIVE Dumped(_)
Dumped(value) ==
    CASE value.t = "list" ->
            <<Lexeme("[")>>
            \o Joined([i \in 1..Len(value.items) |-> Dumped(value.items[i])])
            \o <<Lexeme("]")>>
      [] value.t = "dict" ->
            <<Lexeme("{")>>
            \o Joined([i \in 1..Len(value.items) |->
                          <<StringLexeme(value.items[i][1]), Lexeme(":")>>
                          \o Dumped(value.items[i][2])])
            \o <<Lexeme("}")>>
      [] OTHER -> <<Scalar(value)>>

\* json.load, tests/test_exporters.py lines 48-49: the value at the head of the
\* text and the text that follows it
RECURSIVE ParseValue(_)
RECURSIVE ParseElements(_, _)
RECURSIVE ParseMembers(_, _)
ParseValue(text) ==
    LET lexeme == Head(text)
    IN  CASE lexeme.k = "null" -> [value |-> PyNone, rest |-> Tail(text)]
          [] lexeme.k = "string" -> [value |-> PyStr(lexeme.s), rest |-> Tail(text)]
          [] lexeme.k = "number" ->
                [value |-> IF lexeme.point THEN PyFloat(lexeme.n) ELSE PyInt(lexeme.n),
                 rest |-> Tail(text)]
          [] lexeme.k = "[" ->
                IF text[2].k = "]"
                THEN [value |-> PyList(<<>>), rest |-> Tail(Tail(text))]
                ELSE ParseElements(Tail(text), <<>>)
          [] lexeme.k = "{" ->
                IF text[2].k = "}"
                THEN [value |-> PyDict(<<>>), rest |-> Tail(Tail(text))]
                ELSE ParseMembers(Tail(text), <<>>)

ParseElements(text, items) ==
    LET first == ParseValue(text)
    IN  IF Head(first.rest).k = ","
        THEN ParseElements(Tail(first.rest), Append(items, first.value))
        ELSE [value |-> PyList(Append(items, first.value)), rest |-> Tail(first.rest)]

ParseMembers(text, items) ==
    LET first == ParseValue(Tail(Tail(text)))
        item == <<text[1].s, first.value>>
    IN  IF Head(first.rest).k = ","
        THEN ParseMembers(Tail(first.rest), Append(items, item))
        ELSE [value |-> PyDict(Append(items, item)), rest |-> Tail(first.rest)]

Loaded(text) == ParseValue(text).value

\* Python's ==: numbers by value, lists item by item, dicts key by key
\* whatever the order of their items
RECURSIVE PyEq(_, _)
PyEq(a, b) ==
    CASE a.t \in {"int", "float"} /\ b.t \in {"int", "float"} ->
            (IF a.t = "int" THEN 1000 * a.n ELSE a.n)
                = (IF b.t = "int" THEN 1000 * b.n ELSE b.n)
      [] a.t # b.t -> FALSE
      [] a.t = "NoneType" -> TRUE
      [] a.t = "str" -> a.s = b.s
      [] a.t = "list" ->
            /\ Len(a.items) = Len(b.items)
            /\ \A i \in 1..Len(a.items) : PyEq(a.items[i], b.items[i])
      [] a.t = "dict" ->
            /\ {a.items[i][1] : i \in 1..Len(a.items)}
                   = {b.items[i][1] : i \in 1..Len(b.items)}
            /\ \A i \in 1..Len(a.items), j \in 1..Len(b.items) :
                   a.items[i][1] = b.items[j][1] => PyEq(a.items[i][2], b.items[j][2])

\* the file that save leaves under the name: None when there is none
NoFile == <<Lexeme("no file")>>

\* json.dump has an encoding for every value of the list
RECURSIVE Serializable(_)
Serializable(value) ==
    CASE value.t = "list" -> \A i \in 1..Len(value.items) : Serializable(value.items[i])
      [] value.t = "dict" -> \A i \in 1..Len(value.items) : Serializable(value.items[i][2])
      [] OTHER -> value.t # "set"

\* the file of a json.dump that raised: the text written before the value that
\* has no encoding, not a JSON document
Truncated == <<Lexeme("truncated")>>

\* JSONDataExporter.save(data, filename), lines 38-51
JSONDataExporter_save(data, filename) ==
    IF filename \in UnwritableNames THEN [returned |-> FALSE, file |-> NoFile]
    ELSE IF ~Serializable(PyList(data)) THEN [returned |-> FALSE, file |-> Truncated]
    ELSE [returned |-> TRUE, file |-> Dumped(PyList(data))]

\* repr() of a float given in thousandths
FloatText(thousandths) ==
    LET f == thousandths % 1000
        digits == IF f % 100 = 0 THEN ToString(f \div 100)
                  ELSE IF f % 10 = 0
                       THEN (IF f < 100 THEN "0" ELSE "") \o ToString(f \div 10)
                       ELSE (IF f < 10 THEN "00" ELSE IF f < 100 THEN "0" ELSE "")
                                \o ToString(f)
    IN  ToString(thousandths \div 1000) \o "." \o digits

\* ", ".join(texts)
RECURSIVE CommaJoined(_)
CommaJoined(texts) ==
    IF texts = <<>> THEN ""
    ELSE IF Len(texts) = 1 THEN texts[1]
    ELSE texts[1] \o ", " \o CommaJoined(Tail(texts))

\* Python's repr() and str()
RECURSIVE Repr(_)
Repr(value) ==
    CASE value.t = "NoneType" -> "None"
      [] value.t = "int" -> ToString(value.n)
      [] value.t = "float" -> FloatText(value.n)
      [] value.t = "str" -> "'" \o value.s \o "'"
      [] value.t = "set" -> "set()"
      [] value.t = "list" ->
            "[" \o CommaJoined([i \in 1..Len(value.items) |-> Repr(value.items[i])]) \o "]"
      [] value.t = "dict" ->
            "{" \o CommaJoined([i \in 1..Len(value.items) |->
                                   "'" \o value.items[i][1] \o "': "
                                       \o Repr(value.items[i][2])])
                \o "}"

Str(value) == IF value.t = "str" THEN value.s ELSE Repr(value)

\* dict.keys() and dict.values(), in the order of insertion
Keys(row) == [k \in 1..Len(row.items) |-> row.items[k][1]]
Values(row) == [k \in 1..Len(row.items) |-> row.items[k][2]]

\* the field csv.writer writes for a value: '' for None, the text itself for a
\* str, str() of anything else
CsvField(value) == IF value.t = "NoneType" THEN "" ELSE Str(value)

\* a writer that writes under each header the value the record has for it,
\* as csv.DictWriter would with restval=''
CsvRows_ByHeader(data) ==
    LET header == Keys(data[1])
        at(row, key) == {k \in 1..Len(row.items) : row.items[k][1] = key}
        field(row, key) == IF at(row, key) = {} THEN ""
                           ELSE CsvField(row.items[CHOOSE k \in at(row, key) : TRUE][2])
    IN  <<header>>
        \o [i \in 1..Len(data) |-> [k \in 1..Len(header) |-> field(data[i], header[k])]]

\* lines 25-27: the header and the rows of a non-empty list
CsvRows(data) ==
    <<Keys(data[1])>>
    \o [i \in 1..Len(data) |->
           [k \in 1..Len(data[i].items) |-> CsvField(Values(data[i])[k])]]

\* CSVDataExporter.save(data, filename), lines 17-34: the file as the list of
\* the rows csv.reader reads from it
CSVDataExporter_save(data, filename) ==
    IF filename \in UnwritableNames THEN [returned |-> FALSE, file |-> NoFile]
    ELSE [returned |-> TRUE, file |-> IF data # <<>> THEN CsvRows(data) ELSE <<>>]

\* lines 75-78: the value put in a cell
ExcelCell(v) == IF v.t \in {"dict", "list"} THEN PyStr(Str(v)) ELSE v

\* lines 73-79: the header and the rows appended to the sheet
ExcelRows(data) ==
    <<[k \in 1..Len(data[1].items) |-> PyStr(Keys(data[1])[k])]>>
    \o [i \in 1..Len(data) |->
           [k \in 1..Len(data[i].items) |-> ExcelCell(Values(data[i])[k])]]

\* ExcelDataExporter.save(data, filename), lines 55-87 with openpyxl imported
\* (line 7): ws.append raises ValueError on a value that is no cell value, and
\* wb.save (line 80) is the only write to the file
ExcelDataExporter_save(data, filename) ==
    LET rows == IF data # <<>> THEN ExcelRows(data) ELSE <<>>
        refused == \E i \in 1..Len(rows) : \E k \in 1..Len(rows[i]) : rows[i][k].t = "set"
    IN  IF refused \/ filename \in UnwritableNames
        THEN [returned |-> FALSE, file |-> NoFile]
        ELSE [returned |-> TRUE, file |-> rows]

call_save ==
    /\ called.fn = "JSONDataExporter.save"
    /\ ~result.done
    /\ result' = Returned(JSONDataExporter_save(called.data, called.filename))
    /\ UNCHANGED <<called, caches, application>>

call_csv_save ==
    /\ called.fn = "CSVDataExporter.save"
    /\ ~result.done
    /\ result' = Returned(CSVDataExporter_save(called.data, called.filename))
    /\ UNCHANGED <<called, caches, application>>

call_excel_save ==
    /\ called.fn = "ExcelDataExporter.save"
    /\ ~result.done
    /\ result' = Returned(ExcelDataExporter_save(called.data, called.filename))
    /\ UNCHANGED <<called, caches, application>>

\* lines 1669-1680: the exporter chosen for the file type
exporter_save(filetype, data, filename) ==
    CASE filetype = "csv" -> CSVDataExporter_save(data, filename)
      [] filetype = "json" -> JSONDataExporter_save(data, filename)
      [] filetype = "xlsx" -> ExcelDataExporter_save(data, filename)

\* a thread that reports a failed export twice: in a handler and after it
ExportDialogs_TwiceOnFailure(filetype, success) ==
    IF success
    THEN <<Closure("showinfo", <<>>, Status("Data exported successfully as", filetype), 0)>>
    ELSE <<Closure("showerror", <<>>, Status("Failed to export data", ""), 0),
           showerror("Failed to export data as", filetype)>>

\* lines 1733-1753: the dialog scheduled with root.after(0, ...)
ExportDialogs(filetype, success) ==
    IF success
    THEN <<Closure("showinfo", <<>>, Status("Data exported successfully as", filetype), 0)>>
    ELSE <<showerror("Failed to export data as", filetype)>>

\* do_export_standings(exporter, flat_data, filename, filetype), lines 1710-1753:
\* save does not raise, the handler of lines 1720-1730 is not entered
do_export_standings ==
    /\ called.fn = "do_export_standings"
    /\ ~result.done
    /\ LET saved == exporter_save(called.filetype, called.data, called.filename)
       IN  /\ result' = Returned(saved)
           /\ after_queue' = after_queue \o ExportDialogs(called.filetype, saved.returned)
    /\ UNCHANGED <<called, caches, program, now, events, tasks, snapshots, last,
                   widgets, selection, status_var, logo_frame, initial_pending,
                   timer_due, export>>

InitHelpers ==
    /\ program = "module"
    /\ Constructed
    /\ called \in FilterCalls \cup ValidateCalls \cup SaveCalls \cup TableCalls
                    \cup ExportThreadCalls
    /\ result = NoResult

NextHelpers ==
    \/ call_create_filter
    \/ call_validate_data
    \/ call_save
    \/ call_csv_save
    \/ call_excel_save
    \/ do_export_standings

SpecHelpers == InitHelpers /\ [][NextHelpers]_vars

-----------------------------------------------------------------------------
(* The filters *)

\* the positions of the items of data that satisfy the criterion
Satisfying(criterion, data) ==
    {i \in 1..Len(data) : filter_criteria(criterion, data[i])}

\* the j-th smallest position of the set
Nth(positions, j) ==
    CHOOSE i \in positions : Cardinality({m \in positions : m <= i}) = j

\* C27: the function returned by create_filter(p) returns exactly the items of
\* the list that satisfy p, in their order and as many times as they occur,
\* leaves the list it is given as it was, and gives the same list when it is
\* applied to its own result
C27_FilterKeepsSatisfyingItems ==
    [][call_create_filter =>
          LET data == called.data
              criterion == called.criterion
              filtered == result'.value
              kept == Satisfying(criterion, data)
          IN  /\ Len(filtered) = Cardinality(kept)
              /\ \A j \in 1..Len(filtered) : filtered[j] = data[Nth(kept, j)]
              /\ called'.data = data
              /\ filter_data(criterion, filtered) = filtered]_vars

\* a list of three items, of which the first and the third are the same item
\* and satisfy the criterion, was filtered to two items
C27_Witness ==
    /\ called.fn = "create_filter"
    /\ result.done
    /\ Len(called.data) = 3
    /\ called.data[1] = called.data[3]
    /\ ~filter_criteria(called.criterion, called.data[2])
    /\ result.value = <<called.data[1], called.data[3]>>

-----------------------------------------------------------------------------
(* The validation before an export *)

ValidateReturned == called.fn = "validate_data" /\ result.done

\* the record has every field of the list, none of them None or ""
Complete(record, fields) ==
    \A i \in 1..Len(fields) :
        fields[i] \in DOMAIN record /\ record[fields[i]] \notin {None, ""}

\* the records of the snapshot, whatever their key
Records(snapshot) == Concat([k \in 1..Len(snapshot) |-> snapshot[k][2]])

\* the player-stats snapshot is missing, has nothing for the selected category,
\* or a record of the selected category is incomplete
BadPlayerStats(app) ==
    \/ ~app.has_player_stats
    \/ app.current_tab < Len(STAT_CATEGORIES) /\
           LET players == Items(app.current_player_stats,
                                STAT_CATEGORIES[app.current_tab + 1])
           IN  \/ players = <<>>
               \/ \E k \in 1..Len(players) : ~Complete(players[k], PLAYER_FIELDS)

\* the standings snapshot is missing, holds no team, or a team is incomplete
BadStandings(app) ==
    \/ ~app.has_standings
    \/ Records(app.current_standings) = <<>>
    \/ \E r \in Range(Records(app.current_standings)) : ~Complete(r, TEAM_FIELDS)

\* C28: when the wrapped function is export_player_stats_to_csv or
\* export_standings_to_csv and its snapshot is missing, empty or has a record
\* that lacks a required field or holds None or "" in it, the wrapper does not
\* invoke the function, returns None and schedules an error dialog
C28_InvalidDataBlocksExport ==
    (/\ ValidateReturned
     /\ called.positional
     /\ \/ /\ called.func_name = "export_player_stats_to_csv"
           /\ BadPlayerStats(called.app)
        \/ /\ called.func_name = "export_standings_to_csv"
           /\ BadStandings(called.app)) =>
        /\ result.value.invoked = 0
        /\ result.value.returned = None
        /\ result.value.dialogs # <<>>
        /\ \E k \in 1..Len(after_queue) : after_queue[k].op = "showerror"

\* every check that the wrapper makes for the name of the function passes
ChecksPass(func_name, app) ==
    CASE func_name = "export_player_stats_to_csv" ->
            /\ ~BadPlayerStats(app)
            /\ app.has_stats_notebook
            /\ app.current_tab < Len(STAT_CATEGORIES)
      [] func_name = "export_standings_to_csv" ->
            /\ app.has_standings
            /\ FlatData(app.current_standings) # <<>>
            /\ \A r \in Range(FlatData(app.current_standings)) : Complete(r, TEAM_FIELDS)
      [] OTHER -> TRUE

InvokedOnce ==
    /\ result.value.invoked = 1
    /\ result.value.returned = called.func_result
    /\ result.value.dialogs = <<>>

\* C29, as stated: when every check for the name of the wrapped function
\* passes, or the function has another name, the wrapper invokes the function
\* exactly once and returns its result
C29_ValidDataPassesThrough ==
    (ValidateReturned /\ ChecksPass(called.func_name, called.app)) => InvokedOnce

\* C29, amended: the same, for a call that passes the instance as its first
\* positional argument
C29_ValidDataPassesThroughWithSelf ==
    (/\ ValidateReturned
     /\ called.positional
     /\ ChecksPass(called.func_name, called.app)) => InvokedOnce

\* export_standings_to_csv was called on the DummyApp, whose standings are
\* complete, and the wrapped function ran and its result came back
C29_Witness ==
    /\ ValidateReturned
    /\ called.positional
    /\ called.func_name = "export_standings_to_csv"
    /\ called.app = DummyApp
    /\ called.func_result = "True"
    /\ result.value.invoked = 1
    /\ result.value.returned = "True"

-----------------------------------------------------------------------------
(* The JSON export read back *)

\* save wrote its file
Saved ==
    /\ called.fn = "JSONDataExporter.save"
    /\ result.done
    /\ result.value.returned

\* C30: the list read back with json.load from the file that
\* JSONDataExporter.save wrote is equal to the list that was saved
C30_JsonRoundTrip ==
    Saved =>
        /\ ParseValue(result.value.file).rest = <<>>
        /\ PyEq(Loaded(result.value.file), PyList(called.data))

\* two records were saved, one of them with a None, a float and a nested dict,
\* and the file holds more than their scalars
C30_Witness ==
    /\ Saved
    /\ Len(called.data) = 2
    /\ \E i \in 1..2 :
           \E k \in 1..Len(called.data[i].items) :
               called.data[i].items[k] = <<"logo", PyNone>>
    /\ Len(result.value.file) > 20
    /\ Loaded(result.value.file) = PyList(called.data)

-----------------------------------------------------------------------------
(* The merge of the two partitions *)

\* the places <<division, position>> of the grouping that hold the record
PlacesOf(grouping, record) ==
    {p \in UNION {{d} \X (1..Len(grouping[d])) : d \in DOMAIN grouping} :
        grouping[p[1]][p[2]] = record}

\* C32: the grouping returned by update_standings holds every record fetched
\* from either partition exactly once, under the key equal to its division
\* field, and nothing else
C32_GroupedByDivision ==
    UpdateStandingsReturned =>
        LET fetched == Succeeded(called.nfc, "NFC") \o Succeeded(called.afc, "AFC")
            grouping == result.value
        IN  /\ \A d \in DOMAIN grouping :
                   \A k \in 1..Len(grouping[d]) :
                       /\ grouping[d][k].division = d
                       /\ grouping[d][k] \in Range(fetched)
            /\ \A i \in 1..Len(fetched) :
                   /\ Cardinality(PlacesOf(grouping, fetched[i])) = 1
                   /\ fetched[i].division \in DOMAIN grouping

\* both partitions were fetched and the grouping has the NFC East with three
\* teams next to the divisions of the AFC
C32_Witness ==
    /\ UpdateStandingsReturned
    /\ "NFC East" \in DOMAIN result.value
    /\ Len(result.value["NFC East"]) = 3
    /\ Cardinality(DOMAIN result.value) >= 2
    /\ \E d \in DOMAIN result.value : \E k \in 1..Len(result.value[d]) :
           result.value[d][k].conference = "AFC"

-----------------------------------------------------------------------------
(* The standings entry written after a failed partition *)

\* the conferences whose records the grouping holds
ConferencesIn(grouping) == {r.conference : r \in GroupingRecords(grouping)}

\* the grouping of a call in which exactly one partition failed
Partial(grouping) == Cardinality(ConferencesIn(grouping)) = 1

\* C33: whenever the partition fetches of update_standings return, its result
\* is stored with the expiry of the start time plus the full TTL, also when it
\* is the empty grouping of two failed partitions; and a call that starts
\* within the TTL of a partial grouping returns it and makes no request
C33_FailedPartitionsAreCached ==
    /\ (last.kind = "standings" /\ ~FoundFresh(last)) =>
           /\ EntryNow(last).has
           /\ EntryNow(last).value = last.returned
           /\ EntryNow(last).expiry = last.current_time + STANDINGS_CACHE_DURATION
           /\ FetchFailed(last) => standings_cache[last.key] = NoDict
    /\ (last.kind = "standings" /\ FoundFresh(last) /\ Partial(last.seen.value)) =>
           /\ last.returned = last.seen.value
           /\ Partial(last.returned)
           /\ \A x \in DOMAIN last.requests : last.requests[x] = 0

\* a call that started later, within the TTL of a grouping that has the teams
\* of one conference only, was answered with it from the cache
C33_Witness ==
    /\ last.kind = "standings"
    /\ FoundFresh(last)
    /\ last.current_time > 0
    /\ Partial(last.seen.value)
    /\ last.returned = last.seen.value
    /\ \A x \in DOMAIN last.requests : last.requests[x] = 0

-----------------------------------------------------------------------------
(* A standings refresh whose partitions all fail *)

\* both partition fetches of the coroutine returned []
AllPartitionsFailed(t) ==
    /\ t.kind = "standings"
    /\ \A x \in DOMAIN t.fetch : t.fetch[x].value = <<>>

\* the closures that the step puts on the queue of the main loop
NewClosures == SubSeq(after_queue', Len(after_queue) + 1, Len(after_queue'))

\* C34: a standings refresh whose partitions all fail does not take the error
\* path: fetch_and_display_standings assigns the empty grouping to the
\* current-standings snapshot and schedules the view update with it and the
\* message 'Standings updated successfully'
C34_FailedRefreshReportsSuccess ==
    [][\A i \in 1..Len(tasks) :
          (CompleteStandings(i) /\ AllPartitionsFailed(tasks[i])) =>
              /\ current_standings' = NoDict
              /\ Len(NewClosures) = 3
              /\ NewClosures[1].op = "update_standings_ui"
              /\ NewClosures[1].data = NoDict
              /\ NewClosures[2].op = "status_var"
              /\ NewClosures[2].about = Status("Standings updated successfully", "")]_vars

\* a refresh that failed entirely has completed after the view had teams: the
\* snapshot is empty and the success message is on the queue
C34_Witness ==
    /\ last.kind = "standings"
    /\ FetchFailed(last)
    /\ standings_tree # <<>>
    /\ current_standings = NoDict
    /\ \E k \in 1..Len(after_queue) :
           after_queue[k].about = Status("Standings updated successfully", "")

-----------------------------------------------------------------------------
(* app.py with the user changing the season, and the season that is refreshed *)

MaxInputs == 1          \* inputs of the user in a session of SpecYears

\* the user has an input left in the session
InputLeft == events < MaxInputs

NextYears ==
    \/ initial_data_fetch
    \/ schedule_refresh
    \/ InputLeft /\ refresh_button
    \/ \E y \in Years : InputLeft /\ on_year_change(y)
    \/ \E tab \in {0, 1} : InputLeft /\ on_tab_change(tab)
    \/ run_closure
    \/ \E i \in 1..Len(tasks) : Start(i)
    \/ \E i \in 1..Len(tasks) : \E x \in DOMAIN tasks[i].fetch : Respond(i, x)
    \/ \E i \in 1..Len(tasks) : \E x \in DOMAIN tasks[i].fetch : Resolve(i, x)
    \/ \E i \in 1..Len(tasks) : CompleteStandings(i)
    \/ \E i \in 1..Len(tasks) : CompleteLeaders(i)
    \/ SessionTick

SpecYears == InitApp /\ [][NextYears]_vars

\* the step submits one refresh of the kind, for the season `year`
Submits(kind, year) ==
    /\ Len(tasks') = Len(tasks) + 1
    /\ tasks'[Len(tasks')].kind = kind
    /\ tasks'[Len(tasks')].year = year
    /\ CacheKey(tasks'[Len(tasks')])[2] = ResolveYear(year)

ActiveKind(tab) == IF tab = 0 THEN "standings" ELSE "player_stats"

-----------------------------------------------------------------------------
(* app.py's periodic timer over several intervals *)

NextTimer ==
    \/ initial_data_fetch
    \/ schedule_refresh
    \/ \E tab \in {0, 1} : InputLeft /\ on_tab_change(tab)
    \/ run_closure
    \/ \E i \in 1..Len(tasks) : Start(i)
    \/ \E i \in 1..Len(tasks) : \E x \in DOMAIN tasks[i].fetch : Respond(i, x)
    \/ \E i \in 1..Len(tasks) : \E x \in DOMAIN tasks[i].fetch : Resolve(i, x)
    \/ \E i \in 1..Len(tasks) : CompleteStandings(i)
    \/ \E i \in 1..Len(tasks) : CompleteLeaders(i)
    \/ Tick

SpecTimer == InitApp /\ [][NextTimer]_vars

\* the refresh attempted by a firing raises: refresh_player_stats looks the
\* season up in STAT_CATEGORIES (lines 686-688, 908-910)
RefreshRaises ==
    /\ current_tab = 1
    /\ stats_tab < Len(STAT_CATEGORIES)
    /\ year_var \notin STAT_CATEGORY_NAMES

\* C37: the periodic timer re-arms itself before doing any refresh work: every
\* firing, also one whose refresh raises and submits nothing, leaves the next
\* firing pending one interval later, and no other step of the session moves or
\* cancels the pending firing
C37_TimerRearmsFirst ==
    [][/\ schedule_refresh => timer_due' = now + REFRESH_INTERVAL
       /\ (schedule_refresh /\ RefreshRaises) => tasks' = tasks
       /\ ~schedule_refresh => timer_due' = timer_due]_vars

\* the timer has fired at 600 s and at 900 s with the Player Stats tab selected
\* before the first firing, and its third firing is pending
C37_Witness ==
    /\ RefreshRaises
    /\ player_stats_updated_var >= 0
    /\ player_stats_updated_var < INITIAL_REFRESH_DELAY
    /\ now = INITIAL_REFRESH_DELAY + REFRESH_INTERVAL
    /\ timer_due = now + REFRESH_INTERVAL

-----------------------------------------------------------------------------
(* The expiry written by a call that took time *)

\* the coroutine tasks[i] returns in this step and has stored what it fetched
Stores(i) ==
    /\ CompleteStandings(i) \/ CompleteLeaders(i)
    /\ last'.outcome = "stored"

\* the time of the last completion, as its last-updated closure carries it
CompletionTime == after_queue[Len(after_queue)].at

\* C38: the expiry stored with an entry is the time the call read when it
\* started plus the TTL, not the time of the store: of two overlapping
\* refreshes of one key the one that stores last leaves the expiry counted from
\* its own start
C38_ExpiryFromStartTime ==
    [][\A i \in 1..Len(tasks) :
          Stores(i) =>
              /\ tasks[i].current_time <= now
              /\ last'.current_time = tasks[i].current_time
              /\ EntryNow(last)'.has
              /\ EntryNow(last)'.expiry = tasks[i].current_time + DurationOf(last')
              /\ (~UsesStandingsCache(tasks[i])) =>
                     standings_cache_expiry' = standings_cache_expiry
              /\ UsesStandingsCache(tasks[i]) =>
                     leaders_cache_expiry' = leaders_cache_expiry]_vars

\* R1 started at 0 s and stored at 300 s or later, after the refresh R2 that
\* overlapped it had stored: the entry expires one TTL after R1's start, before
\* the expiry R2 had left and before one TTL after the store
C38_Witness ==
    /\ last.kind = "standings"
    /\ last.outcome = "stored"
    /\ last.overlapped
    /\ last.overtaken
    /\ after_queue # <<>>
    /\ after_queue[Len(after_queue)].op = "standings_updated_var"
    /\ CompletionTime > last.current_time
    /\ EntryNow(last).expiry = last.current_time + STANDINGS_CACHE_DURATION
    /\ EntryNow(last).expiry < CompletionTime + STANDINGS_CACHE_DURATION
    /\ last.prior.expiry > EntryNow(last).expiry

-----------------------------------------------------------------------------
(* The tables written by the CSV and Excel exporters *)

\* a table exporter wrote the file of a non-empty list
TableSaved ==
    /\ called.fn \in {"CSVDataExporter.save", "ExcelDataExporter.save"}
    /\ result.done
    /\ result.value.returned
    /\ called.data # <<>>

\* the cell read back from the file is the one that stands for the value: in a
\* CSV file its text, in a sheet the value itself or the text of a dict or list
HoldsValue(cell, value) ==
    IF called.fn = "CSVDataExporter.save"
    THEN CASE value.t = "NoneType" -> cell = ""
           [] value.t = "str" -> cell = value.s
           [] value.t = "int" -> cell = ToString(value.n)
           [] OTHER -> cell = Repr(value)
    ELSE IF value.t \in {"dict", "list"} THEN cell = PyStr(Repr(value))
         ELSE cell = value

HoldsKey(cell, key) ==
    IF called.fn = "CSVDataExporter.save" THEN cell = key ELSE cell = PyStr(key)

\* C31: for a non-empty list the CSV and the Excel exporter write a header row
\* equal to the keys of the first record, then one row per record in the order
\* of the list, row i holding the values of record i
C31_HeaderAndRowPerRecord ==
    TableSaved =>
        LET rows == result.value.file
            first == called.data[1].items
        IN  /\ Len(rows) = Len(called.data) + 1
            /\ Len(rows[1]) = Len(first)
            /\ \A k \in 1..Len(first) : HoldsKey(rows[1][k], first[k][1])
            /\ \A i \in 1..Len(called.data) :
                   LET record == called.data[i].items
                   IN  /\ Len(rows[i + 1]) = Len(record)
                       /\ \A k \in 1..Len(record) :
                              HoldsValue(rows[i + 1][k], record[k][2])

\* a CSV file of two records that do not have the same keys, the second with a
\* None, a float and a nested dict
C31_Witness ==
    /\ TableSaved
    /\ called.fn = "CSVDataExporter.save"
    /\ Len(called.data) = 2
    /\ Keys(called.data[1]) # Keys(called.data[2])
    /\ result.value.file[1] = Keys(called.data[1])
    /\ Len(result.value.file[3]) > Len(result.value.file[1])
    /\ \E k \in 1..Len(result.value.file[3]) :
           /\ called.data[2].items[k][2] = PyNone
           /\ result.value.file[3][k] = ""
    /\ \E k \in 1..Len(result.value.file[3]) :
           /\ called.data[2].items[k][2].t = "dict"
           /\ result.value.file[3][k] = "{'city': 'Orchard Park', 'state': 'NY'}"

-----------------------------------------------------------------------------
(* What save returns and what the export thread schedules *)

SaveFunctions ==
    {"CSVDataExporter.save", "JSONDataExporter.save", "ExcelDataExporter.save"}

\* an exception is raised inside save: by open() or wb.save() on the file name,
\* by json.dump or ws.append on a value they do not take
ExceptionInSave(fn, data, filename) ==
    \/ filename \in UnwritableNames
    \/ /\ fn \in {"JSONDataExporter.save", "ExcelDataExporter.save"}
       /\ \E i \in 1..Len(data) : ~Serializable(data[i])

FileWritten == result.value.file \notin {NoFile, Truncated}

ExporterOf(filetype) ==
    CASE filetype = "csv" -> "CSVDataExporter.save"
      [] filetype = "json" -> "JSONDataExporter.save"
      [] filetype = "xlsx" -> "ExcelDataExporter.save"

\* C39: save of every exporter returns True when the file was written and False
\* when an exception occurred while writing, and never raises; the export
\* thread ends having scheduled exactly one dialog, the success dialog when save
\* returned True and a failure dialog otherwise
C39_SaveReturnsBoolThreadSchedulesOneDialog ==
    /\ (called.fn \in SaveFunctions /\ result.done) =>
           /\ ~result.raised
           /\ result.value.returned
                  = ~ExceptionInSave(called.fn, called.data, called.filename)
           /\ result.value.returned = FileWritten
    /\ (called.fn = "do_export_standings" /\ result.done) =>
           /\ ~result.raised
           /\ result.value.returned
                  = ~ExceptionInSave(ExporterOf(called.filetype), called.data,
                                     called.filename)
           /\ Len(after_queue) = 1
           /\ after_queue[1].op =
                  (IF result.value.returned THEN "showinfo" ELSE "showerror")
           /\ after_queue[1].about.about = called.filetype
    /\ (called.fn = "do_export_standings" /\ ~result.done) => after_queue = <<>>

\* the thread of an Excel export to a path that cannot be written has ended with
\* the failure dialog scheduled
C39_Witness ==
    /\ called.fn = "do_export_standings"
    /\ called.filetype = "xlsx"
    /\ result.done
    /\ ~result.value.returned
    /\ result.value.file = NoFile
    /\ Len(after_queue) = 1
    /\ after_queue[1].op = "showerror"

-----------------------------------------------------------------------------
(* app.py's division filter and the synchronous export of the standings *)

\* the texts of the division entry, and of the minimum-wins entry as int() reads
\* them (a text that is no integer raises ValueError)
DivisionTexts == {"", "east"}
MinWinsTexts == {IntArg(10), StrArg("ten")}

\* division_name.lower() in div.lower(), for the texts above
InLowered(division_name, div) ==
    CASE division_name = "" -> TRUE
      [] division_name = "east" ->
            div \in {DivisionName(c, "East") : c \in Range(CONFERENCE_ORDER)}

\* filter_teams_by_division(division_name, min_wins), lines 1516-1522
filter_teams_by_division(division_name, min_wins) ==
    SelectSeq(Get(current_standings, division_name, <<>>),
              LAMBDA t : t.wins >= min_wins)

\* lines 449-454 and 464-468: the divisions that match and keep a team
Filtered(division_name, min_wins) ==
    LET kept == {div \in DOMAIN current_standings :
                    /\ InLowered(division_name, div)
                    /\ filter_teams_by_division(div, min_wins) # <<>>}
    IN  [div \in kept |-> filter_teams_by_division(div, min_wins)]

\* apply_division_filter, lines 440-482, with the texts of the two entries; the
\* two early returns show a message box and change nothing
apply_division_filter(division_name, min_wins) ==
    /\ program = "app.py"
    /\ IF ~min_wins.is_int \/ Filtered(division_name, min_wins.n) = NoDict
       THEN UNCHANGED <<filtered_standings, standings_tree, status_var>>
       ELSE /\ filtered_standings' =
                   [has |-> TRUE, value |-> Filtered(division_name, min_wins.n)]
            /\ standings_tree' = update_standings_ui(Filtered(division_name, min_wins.n))
            /\ status_var' = Status("Filtered standings", division_name)
    /\ UNCHANGED <<caches, world, events, tasks, after_queue, last, selection,
                   logo_frame, initial_pending, timer_due, current_standings,
                   current_player_stats, writer, stat_trees, standings_updated_var,
                   player_stats_updated_var>>

\* clear_division_filter, lines 484-487
clear_division_filter ==
    /\ program = "app.py"
    /\ filtered_standings' = [has |-> FALSE, value |-> NoDict]
    /\ standings_tree' = update_standings_ui(current_standings)
    /\ status_var' = Status("Cleared division filter", "")
    /\ UNCHANGED <<caches, world, events, tasks, after_queue, last, selection,
                   logo_frame, initial_pending, timer_due, current_standings,
                   current_player_stats, writer, stat_trees, standings_updated_var,
                   player_stats_updated_var>>

\* an export that always takes the snapshot
StandingsToExport_Snapshot == current_standings

\* lines 1650-1654: getattr(self, 'filtered_standings', None) or self.current_standings
StandingsToExport ==
    IF filtered_standings.has /\ filtered_standings.value # NoDict
    THEN filtered_standings.value
    ELSE current_standings

\* lines 1661-1666: the copies of the teams with 'division' set to their key,
\* division by division (the order of the divisions is that of the dict)
FlatByDivision(standings) ==
    [div \in DOMAIN standings |->
        [j \in 1..Len(standings[div]) |-> [standings[div][j] EXCEPT !.division = div]]]

ExportFileTypes == {"csv", "pdf"}

\* export_standings_to_file_sync(filetype), lines 1649-1700, with the name the
\* file dialog returns ('' when cancelled): the call of do_export_standings that
\* its thread makes, once in a session.  Without data, with an unsupported type
\* or without a name it shows a message box or nothing and starts no thread.
export_standings_to_file_sync(filetype, filename) ==
    /\ program = "app.py"
    /\ called = NotCalled
    /\ IF \/ StandingsToExport = NoDict
          \/ filetype \notin {"csv", "json", "xlsx"}
          \/ filename = ""
       THEN UNCHANGED called
       ELSE called' = [fn |-> "run_export_standings_in_thread",
                       filetype |-> filetype,
                       flat_data |-> FlatByDivision(StandingsToExport),
                       filename |-> filename]
    /\ UNCHANGED <<program, now, export, result, caches, events, tasks, after_queue,
                   last, selection, logo_frame, initial_pending, timer_due, snapshots,
                   widgets, status_var>>

NextFilter ==
    \/ initial_data_fetch
    \/ \E y \in Years : InputLeft /\ on_year_change(y)
    \/ run_closure
    \/ \E i \in 1..Len(tasks) : Start(i)
    \/ \E i \in 1..Len(tasks) : \E x \in DOMAIN tasks[i].fetch : Respond(i, x)
    \/ \E i \in 1..Len(tasks) : \E x \in DOMAIN tasks[i].fetch : Resolve(i, x)
    \/ \E i \in 1..Len(tasks) : CompleteStandings(i)
    \/ \E n \in DivisionTexts : \E w \in MinWinsTexts : apply_division_filter(n, w)
    \/ clear_division_filter
    \/ \E ft \in ExportFileTypes : \E f \in {"", "NFL_Standings"} :
          export_standings_to_file_sync(ft, f)

SpecFilter == InitApp /\ [][NextFilter]_vars

\* the step is a call of one of the two filter handlers
FilterHandler ==
    \/ \E n \in DivisionTexts : \E w \in MinWinsTexts : apply_division_filter(n, w)
    \/ clear_division_filter

\* a filter selection is applied
Applied == filtered_standings.has

\* C36: the filtered-standings selection is changed by apply_division_filter and
\* clear_division_filter only, and neither changes the current-standings
\* snapshot; a refresh that delivers standings leaves an applied selection as it
\* is, and an export hands to the exporter the records of the selection when
\* one is applied, those of the current snapshot after clear_division_filter
C36_RefreshKeepsFilterSelection ==
    [][/\ filtered_standings' # filtered_standings =>
              /\ FilterHandler
              /\ current_standings' = current_standings
       /\ current_standings' # current_standings =>
              /\ ~FilterHandler
              /\ last'.kind = "standings"
              /\ current_standings' = last'.returned
              /\ \E i \in 1..Len(tasks) : CompleteStandings(i) \/ Start(i)
       /\ called' # called =>
              /\ called'.fn = "run_export_standings_in_thread"
              /\ Applied => called'.flat_data = FlatByDivision(filtered_standings.value)
              /\ ~Applied => called'.flat_data = FlatByDivision(current_standings)]_vars

\* a selection was applied to the standings of one season, a refresh delivered
\* those of the other season, and the export that followed handed over the teams
\* of the selection with the wins they had before the refresh
C36_Witness ==
    /\ called.fn = "run_export_standings_in_thread"
    /\ Applied
    /\ last.kind = "standings"
    /\ current_standings = last.returned
    /\ current_standings # NoDict
    /\ called.flat_data = FlatByDivision(filtered_standings.value)
    /\ \E div \in DOMAIN called.flat_data :
           /\ div \in DOMAIN current_standings
           /\ \E j \in 1..Len(called.flat_data[div]) :
                  \A k \in 1..Len(current_standings[div]) :
                      current_standings[div][k].wins # called.flat_data[div][j].wins
====
